---- MODULE Spec2Model ----
(***************************************************************************)
(* Model of the Anthropic -> OpenRouter proxy (Bun/TypeScript server).     *)
(*                                                                         *)
(* Seven state machines share this module:                                 *)
(*   Spec          the request translator toOpenRouterPayload, run message *)
(*                 by message over a request body, followed by its         *)
(*                 post-normalization pass;                                *)
(*   SpecStream    the SSE stream translator (ReadableStream start + read  *)
(*                 loop) consuming an upstream text in arbitrary chunks;   *)
(*   SpecStreamIO  the same translator with a consumer that reads or       *)
(*                 cancels the output, and upstream reads that fail;       *)
(*   SpecDispatch  the request handler: routing, credentials, body, and    *)
(*                 the upstream calls of the stream and non-stream branch. *)
(*   SpecResponse  the response translator toAnthropicResponse applied to  *)
(*                 an upstream response JSON;                              *)
(*   SpecModel     model selection: mapModel over the alias tables, the    *)
(*                 per-request overrides, and the alias file on disk;      *)
(*   SpecPayload   the settings of the payload (model, reasoning,          *)
(*                 passthrough fields) and the calls of the non-stream     *)
(*                 branch up to the model the response reports.            *)
(*                                                                         *)
(* Text is modelled as a sequence of tokens.  The tokens "\n" and " " are  *)
(* whitespace; every other token stands for a run of non-whitespace        *)
(* characters, so that String.trim() is the removal of leading and         *)
(* trailing whitespace tokens.                                             *)
(***************************************************************************)
EXTENDS Integers, Sequences, FiniteSets, TLC

(* ------------------------------ bounds -------------------------------- *)

\* Longest request body (number of conversation messages).
MaxMsgs == 3

\* Longest upstream stream (number of delimiter-terminated SSE records).
MaxRecords == 3

\* Longest upstream stream when the consumer and upstream failures take part.
MaxIORecords == 2

(* --------------------------- text helpers ----------------------------- *)

NL == "\n"
SP == " "

IsWs(tok) == tok = NL \/ tok = SP

RECURSIVE TrimStart(_)
TrimStart(s) ==
  IF s = <<>> THEN <<>>
  ELSE IF IsWs(Head(s)) THEN TrimStart(Tail(s)) ELSE s

RECURSIVE TrimEnd(_)
TrimEnd(s) ==
  IF s = <<>> THEN <<>>
  ELSE IF IsWs(s[Len(s)]) THEN TrimEnd(SubSeq(s, 1, Len(s) - 1)) ELSE s

\* String.prototype.trim
Trim(s) == TrimEnd(TrimStart(s))

\* the token sequence s contains the token tok
Includes(s, tok) == \E i \in 1..Len(s) : s[i] = tok

\* the token sequence s starts with the token sequence p
StartsWith(s, p) == Len(p) <= Len(s) /\ SubSeq(s, 1, Len(p)) = p

(* ----------------------- request body (inputs) ------------------------ *)

\* content blocks of the Anthropic request
\* (id is block.id of a tool_use and block.tool_use_id of a tool_result; out is
\* block.output ?? block.content; every tool_use and tool_result of the
\* inputs carries its id, so the crypto.randomUUID() fallbacks never run)
TextBlock(t) ==
  [type |-> "text", text |-> t, id |-> "", name |-> "", out |-> ""]
ToolUseBlock(i) ==
  [type |-> "tool_use", text |-> "", id |-> i, name |-> "fn_" \o i, out |-> ""]
ToolResultBlock(i, o) ==
  [type |-> "tool_result", text |-> "", id |-> i, name |-> "", out |-> o]
OtherBlock ==
  [type |-> "image", text |-> "", id |-> "", name |-> "", out |-> ""]

\* a message content is either a bare string or an array of blocks
StrContent(t)  == [isArray |-> FALSE, str |-> t, blocks |-> <<>>]
ArrContent(bs) == [isArray |-> TRUE, str |-> "", blocks |-> bs]

AssistantContents ==
  { StrContent("hi"),
    ArrContent(<<>>),
    ArrContent(<<TextBlock("x")>>),
    ArrContent(<<ToolUseBlock("a")>>),
    ArrContent(<<ToolUseBlock("a"), ToolUseBlock("b")>>),
    ArrContent(<<ToolUseBlock("b"), ToolUseBlock("a")>>),
    ArrContent(<<TextBlock("x"), ToolUseBlock("a")>>) }

UserContents ==
  { StrContent("hi"),
    ArrContent(<<TextBlock("y")>>),
    ArrContent(<<TextBlock(SP)>>),
    ArrContent(<<OtherBlock>>),
    ArrContent(<<ToolResultBlock("a", "ra")>>),
    ArrContent(<<ToolResultBlock("b", "rb")>>),
    ArrContent(<<ToolResultBlock("z", "rz")>>),
    ArrContent(<<ToolResultBlock("a", "ra"), ToolResultBlock("b", "rb")>>),
    ArrContent(<<ToolResultBlock("b", "rb"), ToolResultBlock("a", "ra")>>),
    ArrContent(<<ToolResultBlock("b", "rb"), TextBlock("y")>>),
    ArrContent(<<TextBlock("y"), ToolResultBlock("z", "rz")>>) }

Messages ==
  { [role |-> "assistant", content |-> c] : c \in AssistantContents } \cup
  { [role |-> "user", content |-> c] : c \in UserContents }

RECURSIVE SeqsUpTo(_, _)
SeqsUpTo(S, n) ==
  IF n = 0 THEN { <<>> }
  ELSE LET shorter == SeqsUpTo(S, n - 1)
       IN  shorter \cup { Append(s, x) : s \in { t \in shorter : Len(t) = n - 1 }, x \in S }

Bodies == SeqsUpTo(Messages, MaxMsgs)

(* ---------------------- upstream (OpenAI) messages -------------------- *)

\* One message of payload.messages.  Absent fields are empty; src is a
\* history field: the index in body.messages of the message it was
\* derived from (0 for the system prompt).
OutMsg(role, content, tool_calls, tool_call_id, name, src) ==
  [role |-> role, content |-> content, tool_calls |-> tool_calls,
   tool_call_id |-> tool_call_id, name |-> name, src |-> src]

\* JSON.stringify of a block that is neither text nor tool_use/tool_result
Stringify(block) == "{\"type\":\"" \o block.type \o "\"}"

hasToolCalls(m) == m.role = "assistant" /\ Len(m.tool_calls) > 0

VARIABLES
  body,         \* b.messages of the request being translated
  hasSystem,    \* b.system is present
  idx,          \* position of the for-of loop over b.messages (1-based)
  messagesOut,  \* the list under construction
  beforeNorm,   \* history: messagesOut as it entered post-normalization
  orphans,      \* history: tool_result blocks that matched no anchor call
  mixedTurns,   \* history: user turns with a matched tool_result and text
  pc            \* "start" | "loop" | "post" | "done"

payloadVars == <<body, hasSystem, idx, messagesOut, beforeNorm, orphans, mixedTurns, pc>>

VARIABLES
  records,      \* history: the records the upstream text was rendered from
  upstream,     \* the text of orResp.body, as tokens
  pos,          \* number of tokens of upstream already handed out by read()
  readIssued,   \* reader.read() has been called
  buf,          \* the carry-over buffer of the read loop
  lastUsage,    \* the latest usage object seen (NoUsage for null)
  events,       \* the events enqueued on the output so far
  spc           \* "idle" | "new" | "reading" | "closed" | "errored" | "stopped"

streamVars == <<records, upstream, pos, readIssued, buf, lastUsage, events, spc>>

VARIABLES
  cancelled,    \* the consumer cancelled the output stream
  taken,        \* number of enqueued events the consumer has read
  failed,       \* what threw inside the read loop: "" | "read" | "emit"
  lateReads,    \* history: reads that completed after the cancellation
  released      \* the upstream reader was cancelled or its lock released

ioVars == <<cancelled, taken, failed, lateReads, released>>

VARIABLES
  req,          \* the incoming request
  env,          \* the environment of the server
  dpc,          \* position of the request handler
  orKey,        \* the key chosen by credential resolution
  calls,        \* history: the upstream calls issued, in order
  resps,        \* history: the upstream responses received, in order
  result        \* what the handler produced: <<>> while it runs

dispatchVars == <<req, env, dpc, orKey, calls, resps, result>>

VARIABLES
  menv,         \* the environment, as far as model selection reads it
  disk,         \* the content of ./model-map.json on disk
  served        \* history: the latest request and its payload model

modelVars == <<menv, disk, served>>

VARIABLES
  rin,          \* the arguments of toAnthropicResponse
  rout          \* its result: <<>> before the call

responseVars == <<rin, rout>>

VARIABLES
  pin,          \* the request body, the x-or-model header and the environment
  pout,         \* the payload toOpenRouterPayload returns: <<>> before the call
  called,       \* the model of every payload sent upstream, in order
  reported,     \* the model toAnthropicResponse reports: <<>> while there is none
  ppc           \* position in the non-stream branch

outVars == <<pin, pout, called, reported, ppc>>

vars == <<payloadVars, streamVars, ioVars, dispatchVars, modelVars, responseVars, outVars>>

(* ------------------- toOpenRouterPayload: assistant ------------------- *)

\* the loop over the blocks of an assistant message: assistantText
RECURSIVE assistantText(_)
assistantText(blocks) ==
  IF blocks = <<>> THEN <<>>
  ELSE LET block == Head(blocks)
           rest  == assistantText(Tail(blocks))
       IN  IF block.type = "text" THEN <<block.text, NL>> \o rest
           ELSE IF block.type = "tool_use" THEN rest
           ELSE <<Stringify(block), NL>> \o rest

\* the loop over the blocks of an assistant message: tool_calls
RECURSIVE toolCallsOf(_)
toolCallsOf(blocks) ==
  IF blocks = <<>> THEN <<>>
  ELSE LET block == Head(blocks)
           rest  == toolCallsOf(Tail(blocks))
       IN  IF block.type = "tool_use"
           THEN <<[id |-> block.id,
                   name |-> IF block.name # "" THEN block.name ELSE "tool"]>> \o rest
           ELSE rest

\* the assistant branch: the list after the message m (input index src)
AssistantBranch(out, m, src) ==
  LET text       == Trim(assistantText(m.content.blocks))
      tool_calls == toolCallsOf(m.content.blocks)
      msg        == OutMsg("assistant", text, tool_calls, "", "", src)
  IN  IF text # <<>> \/ tool_calls # <<>> THEN Append(out, msg) ELSE out

(* ---------------------- toOpenRouterPayload: user --------------------- *)

\* the loop over the blocks of a user message: userText
RECURSIVE userTextOf(_)
userTextOf(blocks) ==
  IF blocks = <<>> THEN <<>>
  ELSE LET block == Head(blocks)
           rest  == userTextOf(Tail(blocks))
       IN  IF block.type = "text" THEN <<block.text, NL>> \o rest
           ELSE IF block.type = "tool_result" THEN rest
           ELSE <<Stringify(block), NL>> \o rest

\* the loop over the blocks of a user message: pendingToolMsgs
RECURSIVE pendingToolMsgsOf(_)
pendingToolMsgsOf(blocks) ==
  IF blocks = <<>> THEN <<>>
  ELSE LET block == Head(blocks)
           rest  == pendingToolMsgsOf(Tail(blocks))
       IN  IF block.type = "tool_result"
           THEN <<[tool_call_id |-> block.id, content |-> block.out]>> \o rest
           ELSE rest

\* (mutation: the scan stops at no message)
RECURSIVE prevAssistantIdx_anyRole(_, _)
prevAssistantIdx_anyRole(out, i) ==
  IF i = 0 THEN 0
  ELSE IF hasToolCalls(out[i]) THEN i
  ELSE prevAssistantIdx_anyRole(out, i - 1)

\* the backward scan for the anchor, from index i down; 0 when there is none
\* (prevAssistantIdx = -1 in the source, whose indices start at 0)
RECURSIVE prevAssistantIdx(_, _)
prevAssistantIdx(out, i) ==
  IF i = 0 THEN 0
  ELSE LET mprev == out[i]
       IN  IF hasToolCalls(mprev) THEN i
           ELSE IF mprev.role # "tool" /\ mprev.role # "assistant" THEN 0
           ELSE prevAssistantIdx(out, i - 1)

\* prevAssistant.tool_calls.map(tc => tc.id)
RECURSIVE idsOf(_)
idsOf(tool_calls) ==
  IF tool_calls = <<>> THEN <<>>
  ELSE <<Head(tool_calls).id>> \o idsOf(Tail(tool_calls))

InSeq(x, s) == \E i \in 1..Len(s) : s[i] = x

\* toolIds.includes(tm.tool_call_id)
IsValidTool_acceptAll(toolIds, tm) == TRUE

IsValidTool(toolIds, tm) == InSeq(tm.tool_call_id, toolIds)

\* validById.has(id)
validHas(toolIds, pending, id) ==
  \E i \in 1..Len(pending) :
    pending[i].tool_call_id = id /\ IsValidTool(toolIds, pending[i])

\* validById.get(id): Map.set keeps the last entry written under a key
validGet(toolIds, pending, id) ==
  LET last == CHOOSE i \in 1..Len(pending) :
                /\ pending[i].tool_call_id = id
                /\ IsValidTool(toolIds, pending[i])
                /\ \A j \in (i + 1)..Len(pending) : pending[j].tool_call_id # id
  IN  pending[last]

\* idToName.get(id) || "tool"
idToName(tool_calls, id) ==
  IF \E i \in 1..Len(tool_calls) : tool_calls[i].id = id
  THEN LET last == CHOOSE i \in 1..Len(tool_calls) :
                     /\ tool_calls[i].id = id
                     /\ \A j \in (i + 1)..Len(tool_calls) : tool_calls[j].id # id
       IN  tool_calls[last].name
  ELSE "tool"
\* orderedValidTools: the matched results as tool messages, in the order of
\* the anchor's tool_calls
RECURSIVE orderedFrom(_, _, _, _)
orderedFrom(ids, tool_calls, pending, src) ==
  IF ids = <<>> THEN <<>>
  ELSE LET id   == Head(ids)
           rest == orderedFrom(Tail(ids), tool_calls, pending, src)
       IN  IF validHas(idsOf(tool_calls), pending, id)
           THEN <<OutMsg("tool", <<validGet(idsOf(tool_calls), pending, id).content>>,
                         <<>>, id, idToName(tool_calls, id), src)>> \o rest
           ELSE rest

\* (mutation: every tool_result becomes a tool message, unvalidated, in
\* submission order)
orderedValidTools_unvalidated(tool_calls, pending, src) ==
  [i \in 1..Len(pending) |->
     OutMsg("tool", <<pending[i].content>>, <<>>, pending[i].tool_call_id, "tool", src)]

orderedValidTools(tool_calls, pending, src) ==
  orderedFrom(idsOf(tool_calls), tool_calls, pending, src)

\* invalidTools: the unmatched results, in submission order
RECURSIVE invalidTools(_, _)
invalidTools(toolIds, pending) ==
  IF pending = <<>> THEN <<>>
  ELSE IF IsValidTool(toolIds, Head(pending))
       THEN invalidTools(toolIds, Tail(pending))
       ELSE <<Head(pending)>> \o invalidTools(toolIds, Tail(pending))

\* `id=${t.tool_call_id} content=${t.content}`
Label(id, content) == "id=" \o id \o " content=" \o content

\* invalidTools.map(label).join("\n")
RECURSIVE joinLabels(_)
joinLabels(inv) ==
  IF inv = <<>> THEN <<>>
  ELSE IF Len(inv) = 1 THEN <<Label(inv[1].tool_call_id, inv[1].content)>>
  ELSE <<Label(inv[1].tool_call_id, inv[1].content), NL>> \o joinLabels(Tail(inv))

\* "\n\n[tool_result]\n" + ...
folded(inv) == <<NL, NL, "[tool_result]", NL>> \o joinLabels(inv)

\* messagesOut.splice(at + 1, 0, ...items), at being a 1-based index
SpliceAfter(out, at, items) ==
  SubSeq(out, 1, at) \o items \o SubSeq(out, at + 1, Len(out))

\* the user text of a turn is emitted with messagesOut.push
\* (mutation: unshift)
pushUser_front(out, msg) == <<msg>> \o out

pushUser(out, msg) == Append(out, msg)

\* the user branch: the list after the message m (input index src)
UserBranch(out, m, src) ==
  LET userText == userTextOf(m.content.blocks)
      pending  == pendingToolMsgsOf(m.content.blocks)
      anchor   == prevAssistantIdx(out, Len(out))
  IN  IF pending # <<>> /\ anchor > 0
      THEN \* the branch ends in `continue`: userText, with the folded
           \* invalid results appended to it, is not emitted
           LET ordered == orderedValidTools(out[anchor].tool_calls, pending, src)
           IN  IF ordered # <<>>
               THEN SpliceAfter(out, anchor, ordered)
               ELSE out
      ELSE LET trimmed == Trim(userText)
           IN  IF trimmed # <<>>
               THEN pushUser(out, OutMsg("user", trimmed, <<>>, "", "", src))
               ELSE out

(* ---------------- toOpenRouterPayload: post-normalization ------------- *)

\* the while loop from j on: the indices collected in usersToRemove
RECURSIVE usersToRemove(_, _, _, _)
usersToRemove(out, toolIds, j, seenTools) ==
  IF j > Len(out) THEN {}
  ELSE LET mj == out[j]
       IN  IF mj.role = "tool" /\ InSeq(mj.tool_call_id, toolIds)
           THEN usersToRemove(out, toolIds, j + 1, seenTools + 1)
           ELSE IF mj.role = "user" /\ seenTools = 0
           THEN {j} \cup usersToRemove(out, toolIds, j + 1, seenTools)
           ELSE {}

\* messagesOut.splice(k, 1) for every collected index k
RECURSIVE removeAt(_, _, _)
removeAt(out, S, k) ==
  IF k > Len(out) THEN <<>>
  ELSE IF k \in S THEN removeAt(out, S, k + 1)
  ELSE <<out[k]>> \o removeAt(out, S, k + 1)

\* the for loop over messagesOut from index i on
RECURSIVE normalizeFrom(_, _)
normalizeFrom(out, i) ==
  IF i > Len(out) THEN out
  ELSE IF hasToolCalls(out[i])
       THEN normalizeFrom(
              removeAt(out, usersToRemove(out, idsOf(out[i].tool_calls), i + 1, 0), 1),
              i + 1)
       ELSE normalizeFrom(out, i + 1)

\* (mutation: the pass removes nothing)
PostNormalization_off(out) == out

PostNormalization(out) == normalizeFrom(out, 1)

(* ------------------------------ actions ------------------------------- *)

Init ==
  /\ body \in Bodies
  /\ hasSystem \in BOOLEAN
  /\ idx = 1
  /\ messagesOut = <<>>
  /\ beforeNorm = <<>>
  /\ orphans = {}
  /\ mixedTurns = {}
  /\ pc = "start"
  /\ records = <<>>
  /\ upstream = <<>>
  /\ pos = 0
  /\ readIssued = FALSE
  /\ buf = <<>>
  /\ lastUsage = <<>>
  /\ events = <<>>
  /\ spc = "idle"
  /\ cancelled = FALSE
  /\ taken = 0
  /\ failed = ""
  /\ lateReads = 0
  /\ released = FALSE
  /\ req = <<>>
  /\ env = <<>>
  /\ dpc = "idle"
  /\ orKey = <<>>
  /\ calls = <<>>
  /\ resps = <<>>
  /\ result = <<>>
  /\ menv = <<>>
  /\ disk = <<>>
  /\ served = <<>>
  /\ pin = <<>>
  /\ pout = <<>>
  /\ called = <<>>
  /\ reported = <<>>
  /\ ppc = "idle"
  /\ rin = <<>>
  /\ rout = <<>>

\* if (b.system) messagesOut.push({role: "system", ...})
PushSystem ==
  /\ pc = "start"
  /\ messagesOut' = IF hasSystem
                    THEN <<OutMsg("system", <<"sys">>, <<>>, "", "", 0)>>
                    ELSE <<>>
  /\ pc' = "loop"
  /\ UNCHANGED <<body, hasSystem, idx, beforeNorm, orphans, mixedTurns>>
  /\ UNCHANGED <<streamVars, ioVars, dispatchVars, modelVars, responseVars, outVars>>

\* one iteration of the loop, on an assistant message with array content
AssistantTurn ==
  /\ pc = "loop"
  /\ idx <= Len(body)
  /\ body[idx].content.isArray
  /\ body[idx].role = "assistant"
  /\ messagesOut' = AssistantBranch(messagesOut, body[idx], idx)
  /\ idx' = idx + 1
  /\ UNCHANGED <<body, hasSystem, beforeNorm, orphans, mixedTurns, pc>>
  /\ UNCHANGED <<streamVars, ioVars, dispatchVars, modelVars, responseVars, outVars>>

\* one iteration of the loop, on a user message with array content
UserTurn ==
  /\ pc = "loop"
  /\ idx <= Len(body)
  /\ body[idx].content.isArray
  /\ body[idx].role = "user"
  /\ messagesOut' = UserBranch(messagesOut, body[idx], idx)
  /\ LET pending == pendingToolMsgsOf(body[idx].content.blocks)
         anchor  == prevAssistantIdx(messagesOut, Len(messagesOut))
         ids     == IF anchor > 0 THEN idsOf(messagesOut[anchor].tool_calls) ELSE <<>>
         text    == Trim(userTextOf(body[idx].content.blocks))
     IN  /\ orphans' = orphans \cup
               { [src |-> idx, id |-> pending[i].tool_call_id,
                  content |-> pending[i].content] :
                 i \in { k \in 1..Len(pending) : ~InSeq(pending[k].tool_call_id, ids) } }
         /\ mixedTurns' = mixedTurns \cup
               IF text # <<>> /\
                  \E i \in 1..Len(pending) : InSeq(pending[i].tool_call_id, ids)
               THEN { [src |-> idx, text |-> text] }
               ELSE {}
  /\ idx' = idx + 1
  /\ UNCHANGED <<body, hasSystem, beforeNorm, pc>>
  /\ UNCHANGED <<streamVars, ioVars, dispatchVars, modelVars, responseVars, outVars>>

\* one iteration of the loop, on a message whose content is not an array:
\* no branch handles it and nothing is emitted
SkipMessage ==
  /\ pc = "loop"
  /\ idx <= Len(body)
  /\ ~body[idx].content.isArray
  /\ idx' = idx + 1
  /\ UNCHANGED <<body, hasSystem, messagesOut, beforeNorm, orphans, mixedTurns, pc>>
  /\ UNCHANGED <<streamVars, ioVars, dispatchVars, modelVars, responseVars, outVars>>

\* the loop is over
EndLoop ==
  /\ pc = "loop"
  /\ idx > Len(body)
  /\ beforeNorm' = messagesOut
  /\ pc' = "post"
  /\ UNCHANGED <<body, hasSystem, idx, messagesOut, orphans, mixedTurns>>
  /\ UNCHANGED <<streamVars, ioVars, dispatchVars, modelVars, responseVars, outVars>>

\* the post-normalization pass, after which messagesOut is payload.messages
PostNormalize ==
  /\ pc = "post"
  /\ messagesOut' = PostNormalization(messagesOut)
  /\ pc' = "done"
  /\ UNCHANGED <<body, hasSystem, idx, beforeNorm, orphans, mixedTurns>>
  /\ UNCHANGED <<streamVars, ioVars, dispatchVars, modelVars, responseVars, outVars>>

Next ==
  \/ PushSystem
  \/ AssistantTurn
  \/ UserTurn
  \/ SkipMessage
  \/ EndLoop
  \/ PostNormalize

Spec == Init /\ [][Next]_vars
(* ============================ stream translator ======================= *)

\* An optional value is a sequence of length 0 (absent, null) or 1.

\* usage objects of the upstream records
UsageA ==
  [prompt_tokens |-> <<3>>, input_tokens |-> <<>>, completion_tokens |-> <<1>>,
   output_tokens |-> <<>>, cached_tokens |-> <<>>]
UsageB ==
  [prompt_tokens |-> <<>>, input_tokens |-> <<5>>, completion_tokens |-> <<>>,
   output_tokens |-> <<2>>, cached_tokens |-> <<1>>]

\* Number(a ?? b ?? 0)
coalesce(a, b) == IF a # <<>> THEN a[1] ELSE IF b # <<>> THEN b[1] ELSE 0

mapUsageFromOpenRouter(orUsage) ==
  [input_tokens  |-> coalesce(orUsage.prompt_tokens, orUsage.input_tokens),
   output_tokens |-> coalesce(orUsage.completion_tokens, orUsage.output_tokens),
   cache_creation_input_tokens |-> 0,
   cache_read_input_tokens |-> coalesce(orUsage.cached_tokens, <<>>)]

\* the JSON objects upstream sends: choices[0].delta.content (when it is a
\* string), usage (when present) and choices[0].delta.tool_calls (when present)
Obj(hasContent, content, usage) ==
  [hasContent |-> hasContent, content |-> content, usage |-> usage, tool_calls |-> <<>>]

\* a tool call as a streamed delta carries it
DeltaToolCall == [id |-> "call_1", name |-> "get_weather", arguments |-> "{\"city\":\"Paris\"}"]

\* a record whose delta has tool_calls and a null content
ToolCallObj == [Obj(FALSE, "", <<>>) EXCEPT !.tool_calls = <<DeltaToolCall>>]

UpstreamObjects ==
  { Obj(TRUE, "Hel", <<>>),
    Obj(TRUE, "", <<>>),
    Obj(FALSE, "", <<UsageA>>),
    Obj(TRUE, "lo", <<UsageB>>),
    ToolCallObj }

\* the text of an object, one token
stringify(o) ==
  "{" \o (IF o.hasContent THEN "content:" \o o.content ELSE "")
      \o (IF o.usage = <<>> THEN "" ELSE IF o.usage[1] = UsageA THEN "usage:A" ELSE "usage:B")
      \o (IF o.tool_calls = <<>> THEN "" ELSE "tool_calls:" \o o.tool_calls[1].id)
      \o "}"

\* an upstream record: its text, and the object it carries if it carries one
Rec(text, obj) == [text |-> text, obj |-> obj]

RecordShapes ==
  { Rec(<<"data:", SP, stringify(o)>>, <<o>>) : o \in UpstreamObjects } \cup
  { Rec(<<"data:", SP, "[DONE]">>, <<>>),
    Rec(<<":OPENROUTER">>, <<>>) }

\* what may follow the last delimiter: nothing, or a record that upstream
\* never terminated
Tails ==
  { <<>>, <<"data:", SP, stringify(Obj(TRUE, "Hel", <<>>))>> }

RECURSIVE render(_)
render(rs) ==
  IF rs = <<>> THEN <<>> ELSE Head(rs).text \o <<NL, NL>> \o render(Tail(rs))

\* buf.split("\n\n"), scanning from position i with the fragment cur open
RECURSIVE splitFrom(_, _, _)
splitFrom(s, i, cur) ==
  IF i > Len(s) THEN <<cur>>
  ELSE IF i < Len(s) /\ s[i] = NL /\ s[i + 1] = NL
       THEN <<cur>> \o splitFrom(s, i + 2, <<>>)
       ELSE splitFrom(s, i + 1, Append(cur, s[i]))

split(s) == splitFrom(s, 1, <<>>)

\* buf = parts.pop() || ""
\* (mutation: the incomplete fragment is not carried over)
carryOver_dropped(parts) == <<>>

carryOver(parts) == parts[Len(parts)]

\* line.replace(/^data:\s*/i, "")
stripData(line) ==
  IF line # <<>> /\ Head(line) \in {"data:", "DATA:"}
  THEN TrimStart(Tail(line))
  ELSE line

\* JSON.parse succeeds
canParse(jsonLine) ==
  Len(jsonLine) = 1 /\ \E o \in UpstreamObjects : stringify(o) = jsonLine[1]

parse(jsonLine) == CHOOSE o \in UpstreamObjects : stringify(o) = jsonLine[1]

Event(name, text, usage) == [name |-> name, text |-> text, usage |-> usage]

\* typeof delta === "string" && delta.length
\* (mutation: the length test is missing)
isTextDelta_anyString(obj) == obj.hasContent

isTextDelta(obj) == obj.hasContent /\ obj.content # ""

\* (mutation: the first usage seen is kept)
handleRecord_firstUsage(st, chunk) ==
  LET line     == Trim(chunk)
      jsonLine == stripData(line)
  IN  IF line = <<>> THEN st
      ELSE IF jsonLine = <<"[DONE]">> THEN st
      ELSE IF ~canParse(jsonLine) THEN st
      ELSE LET obj == parse(jsonLine)
           IN  [events |-> IF isTextDelta(obj)
                           THEN Append(st.events,
                                       Event("content_block_delta", obj.content, <<>>))
                           ELSE st.events,
                lastUsage |-> IF st.lastUsage # <<>> THEN st.lastUsage ELSE obj.usage]

\* the body of `for (const chunk of parts)`; st is [events, lastUsage]
handleRecord(st, chunk) ==
  LET line     == Trim(chunk)
      jsonLine == stripData(line)
  IN  IF line = <<>> THEN st
      ELSE IF jsonLine = <<"[DONE]">> THEN st
      ELSE IF ~canParse(jsonLine) THEN st
      ELSE LET obj == parse(jsonLine)
           IN  [events |-> IF isTextDelta(obj)
                           THEN Append(st.events,
                                       Event("content_block_delta", obj.content, <<>>))
                           ELSE st.events,
                lastUsage |-> IF obj.usage # <<>> THEN obj.usage ELSE st.lastUsage]

\* (mutation: a record that fails to parse ends the for-of loop)
RECURSIVE handleParts_stopAtBadRecord(_, _)
handleParts_stopAtBadRecord(st, parts) ==
  IF parts = <<>> THEN st
  ELSE IF Trim(Head(parts)) # <<>> /\ stripData(Trim(Head(parts))) # <<"[DONE]">>
          /\ ~canParse(stripData(Trim(Head(parts))))
       THEN st
       ELSE handleParts_stopAtBadRecord(handleRecord(st, Head(parts)), Tail(parts))

RECURSIVE handleParts(_, _)
handleParts(st, parts) ==
  IF parts = <<>> THEN st
  ELSE handleParts(handleRecord(st, Head(parts)), Tail(parts))

\* one turn of the while loop for a read that returned value;
\* st is [buf, events, lastUsage]
readStep(st, value) ==
  LET parts == split(st.buf \o value)
      after == handleParts([events |-> st.events, lastUsage |-> st.lastUsage],
                           SubSeq(parts, 1, Len(parts) - 1))
  IN  [buf |-> carryOver(parts), events |-> after.events, lastUsage |-> after.lastUsage]

\* sendEvent("message_start", ...) at the top of start()
\* (mutation: the event is not sent)
startEvents_none == <<>>

startEvents == <<Event("message_start", "", <<>>)>>

\* what follows the loop: message_delta when a usage was seen, message_stop
finishEvents(evs, usage) ==
  (IF usage # <<>>
   THEN Append(evs, Event("message_delta", "", <<mapUsageFromOpenRouter(usage[1])>>))
   ELSE evs) \o <<Event("message_stop", "", <<>>)>>

InitStream ==
  /\ body = <<>>
  /\ hasSystem = FALSE
  /\ idx = 1
  /\ messagesOut = <<>>
  /\ beforeNorm = <<>>
  /\ orphans = {}
  /\ mixedTurns = {}
  /\ pc = "idle"
  /\ records \in SeqsUpTo(RecordShapes, MaxRecords)
  /\ \E tail \in Tails : upstream = render(records) \o tail
  /\ pos = 0
  /\ readIssued = FALSE
  /\ buf = <<>>
  /\ lastUsage = <<>>
  /\ events = <<>>
  /\ spc = "new"
  /\ cancelled = FALSE
  /\ taken = 0
  /\ failed = ""
  /\ lateReads = 0
  /\ released = FALSE
  /\ req = <<>>
  /\ env = <<>>
  /\ dpc = "idle"
  /\ orKey = <<>>
  /\ calls = <<>>
  /\ resps = <<>>
  /\ result = <<>>
  /\ menv = <<>>
  /\ disk = <<>>
  /\ served = <<>>
  /\ pin = <<>>
  /\ pout = <<>>
  /\ called = <<>>
  /\ reported = <<>>
  /\ ppc = "idle"
  /\ rin = <<>>
  /\ rout = <<>>

\* start(controller) up to the first await: message_start is enqueued
StreamStart ==
  /\ spc = "new"
  /\ events' = events \o startEvents
  /\ spc' = "reading"
  /\ UNCHANGED <<records, upstream, pos, readIssued, buf, lastUsage>>
  /\ UNCHANGED <<payloadVars, ioVars, dispatchVars, modelVars, responseVars, outVars>>

\* reader.read() returns the next n tokens of upstream, and the loop body runs
ReadChunk ==
  /\ spc = "reading"
  /\ ~cancelled
  /\ pos < Len(upstream)
  /\ \E n \in 1..(Len(upstream) - pos) :
        LET st == readStep([buf |-> buf, events |-> events, lastUsage |-> lastUsage],
                           SubSeq(upstream, pos + 1, pos + n))
        IN  /\ buf' = st.buf
            /\ events' = st.events
            /\ lastUsage' = st.lastUsage
            /\ pos' = pos + n
  /\ readIssued' = TRUE
  /\ UNCHANGED <<records, upstream, spc>>
  /\ UNCHANGED <<payloadVars, ioVars, dispatchVars, modelVars, responseVars, outVars>>

\* reader.read() returns done: the closing events, then controller.close()
ReadDone ==
  /\ spc = "reading"
  /\ ~cancelled
  /\ pos = Len(upstream)
  /\ readIssued' = TRUE
  /\ events' = finishEvents(events, lastUsage)
  /\ spc' = "closed"
  /\ UNCHANGED <<records, upstream, pos, buf, lastUsage>>
  /\ UNCHANGED <<payloadVars, ioVars, dispatchVars, modelVars, responseVars, outVars>>

NextStream ==
  \/ StreamStart
  \/ ReadChunk
  \/ ReadDone

SpecStream == InitStream /\ [][NextStream]_vars

(* -------- stream translator with its consumer and upstream failures --- *)

\* .catch((e) => controller.error(e)): the output becomes errored, unless it
\* is no longer readable (cancelled), when controller.error does nothing
\* (mutation: the handler closes the output)
onLoopError_closes(isCancelled) == "closed"

onLoopError(isCancelled) == IF isCancelled THEN "stopped" ELSE "errored"

\* the for-of loop over parts once the output is cancelled: controller.enqueue
\* throws, so the loop runs until the first record that calls sendEvent
RECURSIVE handlePartsCancelled(_, _)
handlePartsCancelled(usage, parts) ==
  IF parts = <<>> THEN [lastUsage |-> usage, threw |-> FALSE]
  ELSE LET st == handleRecord([events |-> <<>>, lastUsage |-> usage], Head(parts))
       IN  IF st.events # <<>>
           THEN [lastUsage |-> usage, threw |-> TRUE]
           ELSE handlePartsCancelled(st.lastUsage, Tail(parts))

InitStreamIO ==
  /\ body = <<>>
  /\ hasSystem = FALSE
  /\ idx = 1
  /\ messagesOut = <<>>
  /\ beforeNorm = <<>>
  /\ orphans = {}
  /\ mixedTurns = {}
  /\ pc = "idle"
  /\ records \in SeqsUpTo(RecordShapes, MaxIORecords)
  /\ \E tail \in Tails : upstream = render(records) \o tail
  /\ pos = 0
  /\ readIssued = FALSE
  /\ buf = <<>>
  /\ lastUsage = <<>>
  /\ events = <<>>
  /\ spc = "new"
  /\ cancelled = FALSE
  /\ taken = 0
  /\ failed = ""
  /\ lateReads = 0
  /\ released = FALSE
  /\ req = <<>>
  /\ env = <<>>
  /\ dpc = "idle"
  /\ orKey = <<>>
  /\ calls = <<>>
  /\ resps = <<>>
  /\ result = <<>>
  /\ menv = <<>>
  /\ disk = <<>>
  /\ served = <<>>
  /\ pin = <<>>
  /\ pout = <<>>
  /\ called = <<>>
  /\ reported = <<>>
  /\ ppc = "idle"
  /\ rin = <<>>
  /\ rout = <<>>

\* reader.read() rejects: the async function throws and the catch handler runs
ReadFails ==
  /\ spc = "reading"
  /\ readIssued' = TRUE
  /\ failed' = "read"
  /\ spc' = onLoopError(cancelled)
  /\ UNCHANGED <<records, upstream, pos, buf, lastUsage, events>>
  /\ UNCHANGED <<cancelled, taken, lateReads, released>>
  /\ UNCHANGED <<payloadVars, dispatchVars, modelVars, responseVars, outVars>>

\* the consumer takes the next event off the output queue
ConsumerRead ==
  /\ spc \in {"reading", "closed"}
  /\ ~cancelled
  /\ taken < Len(events)
  /\ taken' = taken + 1
  /\ UNCHANGED <<cancelled, failed, lateReads, released>>
  /\ UNCHANGED <<payloadVars, streamVars, dispatchVars, modelVars, responseVars, outVars>>

\* the client disconnects: the output is cancelled; the underlying source
\* has no cancel() method, so nothing else happens
ConsumerCancel ==
  /\ spc = "reading"
  /\ ~cancelled
  /\ cancelled' = TRUE
  /\ UNCHANGED <<taken, failed, lateReads, released>>
  /\ UNCHANGED <<payloadVars, streamVars, dispatchVars, modelVars, responseVars, outVars>>

\* reader.read() returns the next n tokens after the cancellation: the loop
\* body runs and stops only if a record makes it call sendEvent
ReadChunkCancelled ==
  /\ spc = "reading"
  /\ cancelled
  /\ pos < Len(upstream)
  /\ \E n \in 1..(Len(upstream) - pos) :
        LET parts == split(buf \o SubSeq(upstream, pos + 1, pos + n))
            r     == handlePartsCancelled(lastUsage, SubSeq(parts, 1, Len(parts) - 1))
        IN  /\ buf' = carryOver(parts)
            /\ lastUsage' = r.lastUsage
            /\ pos' = pos + n
            /\ failed' = IF r.threw THEN "emit" ELSE failed
            /\ spc' = IF r.threw THEN onLoopError(cancelled) ELSE spc
  /\ readIssued' = TRUE
  /\ lateReads' = lateReads + 1
  /\ UNCHANGED <<records, upstream, events>>
  /\ UNCHANGED <<cancelled, taken, released>>
  /\ UNCHANGED <<payloadVars, dispatchVars, modelVars, responseVars, outVars>>

\* reader.read() returns done after the cancellation: the first closing
\* sendEvent throws
ReadDoneCancelled ==
  /\ spc = "reading"
  /\ cancelled
  /\ pos = Len(upstream)
  /\ readIssued' = TRUE
  /\ failed' = "emit"
  /\ spc' = onLoopError(cancelled)
  /\ lateReads' = lateReads + 1
  /\ UNCHANGED <<records, upstream, pos, buf, lastUsage, events>>
  /\ UNCHANGED <<cancelled, taken, released>>
  /\ UNCHANGED <<payloadVars, dispatchVars, modelVars, responseVars, outVars>>

NextStreamIO ==
  \/ StreamStart
  \/ ReadChunk
  \/ ReadDone
  \/ ReadFails
  \/ ConsumerRead
  \/ ConsumerCancel
  \/ ReadChunkCancelled
  \/ ReadDoneCancelled

SpecStreamIO == InitStreamIO /\ [][NextStreamIO]_vars

(* ============================ request handler ========================= *)

\* Header values, keys and model names are strings modelled as token
\* sequences (<<>> is the empty string); an optional string is a sequence
\* holding no string or one.

Methods == {"GET", "POST", "OPTIONS"}

Paths == {"/health", "/v1/messages", "/v1/messages/count_tokens", "/v1/complete"}

\* anthropic-api-key || x-api-key || ""
ClientKeys == { <<>>, <<"sk-or-", "client">>, <<"sk-ant-", "client">> }

\* the proxy-token header: absent, the secret, or something else
ProxyTokenHeaders == { <<>>, <<"s3cret">>, <<"guess">> }

Requests ==
  { r \in [method : Methods, path : Paths, clientKey : ClientKeys,
            proxyTokenHeader : ProxyTokenHeaders,
            bodyOk : BOOLEAN, acceptSSE : BOOLEAN, bodyStream : BOOLEAN] :
      r.bodyStream => r.bodyOk }

Envs ==
  [OPENROUTER_API_KEY : { <<>>, <<"sk-or-", "server">> },
   REQUIRE_PROXY_TOKEN : { "", "1" },
   PROXY_TOKEN : { <<>>, <<"">>, <<"s3cret">> },
   FALLBACK_MODEL : { <<>>, <<SP>>, <<"fallback/model">> }]

\* JSON text is valid when, whitespace aside, it is an object
isJSON(text) ==
  LET t == SelectSeq(text, LAMBDA x : ~IsWs(x))
  IN  t # <<>> /\ Head(t) = "{" /\ t[Len(t)] = "}"

\* JSON.parse followed by JSON.stringify: insignificant whitespace is gone
reserialize(text) == SelectSeq(text, LAMBDA x : ~IsWs(x))

errorBody(code) == <<"{", "\"error\":\"" \o code \o "\"", "}">>

\* new Response(body, {status}); headers is a set of <<name, value>> pairs
Response(status, bodyText) ==
  [kind |-> "response", status |-> status, body |-> bodyText, headers |-> {}]

\* Headers.set(name, value)
setHeader(h, name, value) == { p \in h : p[1] # name } \cup { <<name, value>> }

\* json(obj, status): the body is JSON.stringify(obj)
json(bodyText, status) ==
  [Response(status, bodyText) EXCEPT
     !.headers = setHeader(@, "content-type", "application/json")]

AllowHeaders ==
  "content-type, x-api-key, anthropic-api-key, anthropic-version, proxy-token, x-or-model"

\* (mutation: the earlier withCORS, which does not set anthropic-version)
withCORS_noVersion(resp) ==
  [resp EXCEPT
     !.headers =
        setHeader(setHeader(setHeader(@,
          "access-control-allow-origin", "*"),
          "access-control-allow-methods", "POST, GET, OPTIONS"),
          "access-control-allow-headers", AllowHeaders)]

withCORS(resp) ==
  [resp EXCEPT
     !.headers =
        setHeader(setHeader(setHeader(setHeader(@,
          "access-control-allow-origin", "*"),
          "access-control-allow-methods", "POST, GET, OPTIONS"),
          "access-control-allow-headers", AllowHeaders),
          "anthropic-version", "2023-06-01")]

\* the handler's promise rejects: no Response is produced by the handler
Thrown == [kind |-> "thrown", status |-> 0, body |-> <<>>, headers |-> {}]

\* what an upstream call can come to
UpstreamResponses ==
  { Response(200, <<"{", "\"id\":\"gen-1\"", "}">>),
    Response(429, errorBody("rate_limited")),
    Response(500, <<"{", SP, "\"error\":\"overloaded\"", SP, "}">>),
    Response(400, errorBody("bad_request")),
    Response(502, <<"<html>", "Bad", SP, "Gateway", "</html>">>),
    Response(503, <<>>) }

Outcomes(timed) ==
  UpstreamResponses \cup { [kind |-> "network", status |-> 0, body |-> <<>>, headers |-> {}] }
    \cup (IF timed
          THEN { [kind |-> "timeout", status |-> 0, body |-> <<>>, headers |-> {}] }
          ELSE {})

isOk(status) == status >= 200 /\ status <= 299

\* (mutation: the preflight test placed in front of the health test)
route_preflightFirst(r) ==
  IF r.method = "OPTIONS" THEN <<withCORS(Response(204, <<>>))>>
  ELSE IF r.path = "/health" THEN <<withCORS(json(<<"{", "\"ok\":true", "}">>, 200))>>
  ELSE IF r.method = "POST" /\ r.path = "/v1/messages/count_tokens"
       THEN IF r.bodyOk
            THEN <<withCORS(json(<<"{", "\"input_tokens\":n", "}">>, 200))>>
            ELSE <<withCORS(json(errorBody("invalid_json"), 400))>>
  ELSE IF r.method # "POST" \/ r.path # "/v1/messages"
       THEN <<withCORS(json(errorBody("not_found"), 404))>>
  ELSE <<>>

\* the checks in front of the main endpoint: a response, or none
route(r) ==
  IF r.path = "/health" THEN <<withCORS(json(<<"{", "\"ok\":true", "}">>, 200))>>
  ELSE IF r.method = "OPTIONS" THEN <<withCORS(Response(204, <<>>))>>
  ELSE IF r.method = "POST" /\ r.path = "/v1/messages/count_tokens"
       THEN IF r.bodyOk
            THEN <<withCORS(json(<<"{", "\"input_tokens\":n", "}">>, 200))>>
            ELSE <<withCORS(json(errorBody("invalid_json"), 400))>>
  ELSE IF r.method # "POST" \/ r.path # "/v1/messages"
       THEN <<withCORS(json(errorBody("not_found"), 404))>>
  ELSE <<>>

\* header(request, "proxy-token") || ""
proxyToken(r) == IF r.proxyTokenHeader = <<>> THEN "" ELSE r.proxyTokenHeader[1]

\* String(env.REQUIRE_PROXY_TOKEN || "0") === "1"
requireProxyToken(e) ==
  (IF e.REQUIRE_PROXY_TOKEN = "" THEN "0" ELSE e.REQUIRE_PROXY_TOKEN) = "1"

\* credential resolution: the key to use, or the response that rejects
resolveKey(r, e) ==
  IF r.clientKey # <<>> /\ StartsWith(r.clientKey, <<"sk-or-">>)
  THEN [key |-> r.clientKey, reject |-> <<>>]
  ELSE IF e.OPENROUTER_API_KEY = <<>>
       THEN [key |-> <<>>, reject |-> <<withCORS(json(errorBody("missing_server_key"), 401))>>]
  ELSE IF requireProxyToken(e) /\ e.PROXY_TOKEN # <<proxyToken(r)>>
       THEN [key |-> <<>>, reject |-> <<withCORS(json(errorBody("forbidden"), 403))>>]
  ELSE [key |-> e.OPENROUTER_API_KEY, reject |-> <<>>]

\* await request.json() succeeds
\* (mutation: a body that is not JSON is let through)
parseBody_lenient(r) == TRUE

parseBody(r) == r.bodyOk

wantsStream(r) == r.acceptSSE \/ r.bodyStream

\* the upstream payload, as far as the dispatcher touches it
payloadOf(r) == [model |-> <<"mapped/model">>, stream |-> FALSE, messages |-> "messages"]

Call(payload, key, timed) == [payload |-> payload, key |-> key, timed |-> timed]

\* (status === 429 || (status >= 500 && status <= 599)) && FALLBACK_MODEL
\* (mutation: every failed call is retried)
shouldRetry_anyError(status, fallback) == ~isOk(status) /\ fallback # <<>>

shouldRetry(status, fallback) ==
  (status = 429 \/ (status >= 500 /\ status <= 599)) /\ fallback # <<>>

\* the response body built from the upstream data of a successful call
successBody(data) == <<"{", "\"type\":\"message\"", "\"from\":">> \o data \o <<"}">>

\* what follows the last upstream call of the non-stream branch
respond(resp) ==
  IF ~isJSON(resp.body) THEN Thrown
  ELSE IF ~isOk(resp.status) THEN withCORS(json(reserialize(resp.body), resp.status))
  ELSE withCORS(json(successBody(reserialize(resp.body)), 200))

\* what follows the upstream call of the stream branch
respondStream(resp) ==
  IF ~isOk(resp.status)
  THEN withCORS(Response(resp.status,
                         IF resp.body = <<>> THEN <<"upstream_error">> ELSE resp.body))
  ELSE [Response(200, <<"event-stream">>) EXCEPT
          !.headers = { <<"content-type", "text/event-stream; charset=utf-8">>,
                        <<"cache-control", "no-cache, no-transform">>,
                        <<"connection", "keep-alive">>,
                        <<"transfer-encoding", "chunked">>,
                        <<"anthropic-version", "2023-06-01">>,
                        <<"access-control-allow-origin", "*">>,
                        <<"access-control-allow-methods", "POST, GET, OPTIONS">>,
                        <<"access-control-allow-headers", AllowHeaders>> }]

InitDispatch ==
  /\ body = <<>>
  /\ hasSystem = FALSE
  /\ idx = 1
  /\ messagesOut = <<>>
  /\ beforeNorm = <<>>
  /\ orphans = {}
  /\ mixedTurns = {}
  /\ pc = "idle"
  /\ records = <<>>
  /\ upstream = <<>>
  /\ pos = 0
  /\ readIssued = FALSE
  /\ buf = <<>>
  /\ lastUsage = <<>>
  /\ events = <<>>
  /\ spc = "idle"
  /\ cancelled = FALSE
  /\ taken = 0
  /\ failed = ""
  /\ lateReads = 0
  /\ released = FALSE
  /\ req \in Requests
  /\ env \in Envs
  /\ dpc = "route"
  /\ orKey = <<>>
  /\ calls = <<>>
  /\ resps = <<>>
  /\ result = <<>>
  /\ menv = <<>>
  /\ disk = <<>>
  /\ served = <<>>
  /\ pin = <<>>
  /\ pout = <<>>
  /\ called = <<>>
  /\ reported = <<>>
  /\ ppc = "idle"
  /\ rin = <<>>
  /\ rout = <<>>

\* health, preflight, count_tokens and not_found
Route ==
  /\ dpc = "route"
  /\ result' = route(req)
  /\ dpc' = IF route(req) # <<>> THEN "done" ELSE "auth"
  /\ UNCHANGED <<req, env, orKey, calls, resps>>
  /\ UNCHANGED <<payloadVars, streamVars, ioVars, modelVars, responseVars, outVars>>

\* credential resolution
Auth ==
  /\ dpc = "auth"
  /\ LET k == resolveKey(req, env)
     IN  /\ orKey' = k.key
         /\ result' = k.reject
         /\ dpc' = IF k.reject # <<>> THEN "done" ELSE "parse"
  /\ UNCHANGED <<req, env, calls, resps>>
  /\ UNCHANGED <<payloadVars, streamVars, ioVars, modelVars, responseVars, outVars>>

\* the request body is parsed and the branch chosen
ParseBody ==
  /\ dpc = "parse"
  /\ IF ~parseBody(req)
     THEN /\ result' = <<withCORS(json(errorBody("invalid_json"), 400))>>
          /\ dpc' = "done"
     ELSE /\ result' = <<>>
          /\ dpc' = IF wantsStream(req) THEN "stream" ELSE "primary"
  /\ UNCHANGED <<req, env, orKey, calls, resps>>
  /\ UNCHANGED <<payloadVars, streamVars, ioVars, modelVars, responseVars, outVars>>

\* stream branch: fetch(OPENROUTER_URL, ...) is issued
StreamFetch ==
  /\ dpc = "stream"
  /\ calls' = Append(calls, Call([payloadOf(req) EXCEPT !.stream = TRUE], orKey, FALSE))
  /\ dpc' = "awaitStream"
  /\ UNCHANGED <<req, env, orKey, resps, result>>
  /\ UNCHANGED <<payloadVars, streamVars, ioVars, modelVars, responseVars, outVars>>

\* stream branch: the fetch settles
StreamReturn ==
  /\ dpc = "awaitStream"
  /\ \E o \in Outcomes(FALSE) :
        /\ resps' = Append(resps, o)
        /\ result' = IF o.kind = "response" THEN <<respondStream(o)>> ELSE <<Thrown>>
  /\ dpc' = "done"
  /\ UNCHANGED <<req, env, orKey, calls>>
  /\ UNCHANGED <<payloadVars, streamVars, ioVars, modelVars, responseVars, outVars>>

\* non-stream branch: the first timedFetch is issued
PrimaryFetch ==
  /\ dpc = "primary"
  /\ calls' = Append(calls, Call(payloadOf(req), orKey, TRUE))
  /\ dpc' = "awaitPrimary"
  /\ UNCHANGED <<req, env, orKey, resps, result>>
  /\ UNCHANGED <<payloadVars, streamVars, ioVars, modelVars, responseVars, outVars>>

\* non-stream branch: the first call settles; on 429/5xx with a fallback
\* model configured the second timedFetch is issued
PrimaryReturn ==
  /\ dpc = "awaitPrimary"
  /\ \E o \in Outcomes(TRUE) :
        /\ resps' = Append(resps, o)
        /\ IF o.kind # "response"
           THEN /\ result' = <<Thrown>>
                /\ dpc' = "done"
                /\ UNCHANGED calls
           ELSE IF shouldRetry(o.status, Trim(env.FALLBACK_MODEL))
           THEN /\ calls' = Append(calls,
                       Call([payloadOf(req) EXCEPT !.model = Trim(env.FALLBACK_MODEL)],
                            orKey, TRUE))
                /\ dpc' = "awaitFallback"
                /\ UNCHANGED result
           ELSE /\ dpc' = "respond"
                /\ UNCHANGED <<calls, result>>
  /\ UNCHANGED <<req, env, orKey>>
  /\ UNCHANGED <<payloadVars, streamVars, ioVars, modelVars, responseVars, outVars>>

\* non-stream branch: the fallback call settles
FallbackReturn ==
  /\ dpc = "awaitFallback"
  /\ \E o \in Outcomes(TRUE) :
        /\ resps' = Append(resps, o)
        /\ IF o.kind # "response"
           THEN result' = <<Thrown>> /\ dpc' = "done"
           ELSE dpc' = "respond" /\ UNCHANGED result
  /\ UNCHANGED <<req, env, orKey, calls>>
  /\ UNCHANGED <<payloadVars, streamVars, ioVars, modelVars, responseVars, outVars>>

\* non-stream branch: resp.json(), then the response to the client
Respond ==
  /\ dpc = "respond"
  /\ result' = <<respond(resps[Len(resps)])>>
  /\ dpc' = "done"
  /\ UNCHANGED <<req, env, orKey, calls, resps>>
  /\ UNCHANGED <<payloadVars, streamVars, ioVars, modelVars, responseVars, outVars>>

NextDispatch ==
  \/ Route
  \/ Auth
  \/ ParseBody
  \/ StreamFetch
  \/ StreamReturn
  \/ PrimaryFetch
  \/ PrimaryReturn
  \/ FallbackReturn
  \/ Respond

SpecDispatch == InitDispatch /\ [][NextDispatch]_vars

(* ========================= toAnthropicResponse ======================== *)

\* Most tool calls in one upstream message.
MaxToolCalls == 2

\* msg.content: null or missing, a string, an array, or another object
NullContent == [type |-> "null", text |-> <<>>, items |-> <<>>]
StringContent(t) == [type |-> "string", text |-> t, items |-> <<>>]
ArrayContent(items) == [type |-> "array", text |-> <<>>, items |-> items]
ObjectContent(t) == [type |-> "object", text |-> <<t>>, items |-> <<>>]

\* an item of an array content: a string, or an object given by its JSON text
Item(isString, t) == [isString |-> isString, text |-> t]

UpstreamContents ==
  { NullContent,
    StringContent(<<>>),
    StringContent(<<SP, NL>>),
    StringContent(<<"Hello", SP, "world">>),
    StringContent(<<NL, "Hi">>),
    ArrayContent(<<>>),
    ArrayContent(<<Item(TRUE, <<"part">>), Item(FALSE, <<"{\"type\":\"x\"}">>)>>),
    ObjectContent("{\"k\":1}") }

\* tc.function.arguments: missing, a string (JSON or not), or an object
NoArgs == [kind |-> "none", text |-> ""]
StringArgs(valid, t) == [kind |-> IF valid THEN "json" ELSE "text", text |-> t]
ObjectArgs(t) == [kind |-> "object", text |-> t]

\* an upstream tool call; id and name are optional
ToolCall(id, name, args) == [id |-> id, name |-> name, args |-> args]

UpstreamToolCalls ==
  { ToolCall(<<"call_a">>, <<"fn_a">>, StringArgs(TRUE, "{\"x\":1}")),
    ToolCall(<<"call_b">>, <<>>, StringArgs(FALSE, "oops")),
    ToolCall(<<>>, <<"fn_c">>, NoArgs) }

EmptyUsage ==
  [prompt_tokens |-> <<>>, input_tokens |-> <<>>, completion_tokens |-> <<>>,
   output_tokens |-> <<>>, cached_tokens |-> <<>>]

\* prompt and completion reported as zero, with cached tokens
UsageZero == [EmptyUsage EXCEPT !.prompt_tokens = <<0>>, !.completion_tokens = <<0>>,
                                !.cached_tokens = <<4>>]

\* a prompt count and a zero completion count
UsageHalf == [EmptyUsage EXCEPT !.prompt_tokens = <<37>>, !.completion_tokens = <<0>>]

\* orjson.usage: missing, or one of the usage objects
UpstreamUsages == { <<>>, <<UsageA>>, <<UsageB>>, <<UsageZero>>, <<UsageHalf>> }

\* orjson: choices[0].message (optional), usage (optional), id (optional)
UpstreamJson ==
  { [message |-> m, usage |-> u, id |-> i] :
      m \in { <<>> } \cup
             { <<[content |-> c, tool_calls |-> t]>> :
                 c \in UpstreamContents,
                 t \in SeqsUpTo(UpstreamToolCalls, MaxToolCalls) },
      u \in UpstreamUsages,
      i \in { <<>>, <<"gen-1">> } }

\* content.map(c => typeof c === "string" ? c : JSON.stringify(c)).join("\n")
RECURSIVE joinItems(_)
joinItems(items) ==
  IF items = <<>> THEN <<>>
  ELSE Head(items).text \o
       (IF Len(items) > 1 THEN <<NL>> \o joinItems(Tail(items)) ELSE <<>>)

\* const text = typeof content === "string" ? ... : JSON.stringify(content)
textOf(content) ==
  IF content.type = "null" THEN <<>>
  ELSE IF content.type = "string" THEN content.text
  ELSE IF content.type = "array" THEN joinItems(content.items)
  ELSE content.text

\* crypto.randomUUID() for the i-th tool call
uuid(seed, i) == seed \o "-" \o ToString(i)

Block(type, text, id, name, input) ==
  [type |-> type, text |-> text, id |-> id, name |-> name, input |-> input]

\* the input of a tool_use block
inputOf(args) ==
  IF args.kind = "json" THEN args.text
  ELSE IF args.kind = "text" THEN "{\"_raw\":\"" \o args.text \o "\"}"
  ELSE IF args.kind = "object" THEN args.text
  ELSE "{}"

\* tool_calls.map(...)
toolUseBlocks(tool_calls, seed) ==
  [ i \in 1..Len(tool_calls) |->
      LET tc == tool_calls[i]
      IN  Block("tool_use", <<>>,
                IF tc.id # <<>> THEN tc.id[1] ELSE uuid(seed, i),
                IF tc.name # <<>> THEN tc.name[1] ELSE "tool",
                inputOf(tc.args)) ]

\* blocks: the text block when text is not blank, then the tool_use blocks
blocksOf(text, toolBlocks) ==
  (IF text # <<>> /\ Trim(text) # <<>>
   THEN <<Block("text", text, "", "", "")>>
   ELSE <<>>) \o toolBlocks

\* content: blocks.length ? blocks : [{ type: "text", text: "" }]
\* (mutation: the blocks are returned as they are)
contentOf_asIs(blocks) == blocks

contentOf(blocks) ==
  IF blocks # <<>> THEN blocks ELSE <<Block("text", <<>>, "", "", "")>>

\* stop_reason: hasTools ? "tool_use" : "end_turn"
\* (mutation: always end_turn)
stopReason_endTurn(hasTools) == "end_turn"

stopReason(hasTools) == IF hasTools THEN "tool_use" ELSE "end_turn"

\* String(env.ESTIMATE_USAGE || "1") === "1"
shouldEstimateUsage(estimateUsage) ==
  (IF estimateUsage = "" THEN "1" ELSE estimateUsage) = "1"

\* String(text).length
RECURSIVE charLen(_)
charLen(text) == IF text = <<>> THEN 0 ELSE Len(Head(text)) + charLen(Tail(text))

\* clamp(length * TOK_PER_CHAR) with the default 0.25 tokens per character
estimateOutputTokensFromText(text) == charLen(text) \div 4

\* the usage of the response
\* (mutation: each zero count is replaced by its estimate on its own)
usageOf_perField(mapped, estimate, inEst, outEst) ==
  IF estimate
  THEN [mapped EXCEPT
          !.input_tokens = IF @ = 0 THEN inEst ELSE @,
          !.output_tokens = IF @ = 0 THEN outEst ELSE @]
  ELSE mapped

usageOf(mapped, estimate, inEst, outEst) ==
  IF estimate /\ mapped.input_tokens = 0 /\ mapped.output_tokens = 0
  THEN [input_tokens |-> inEst, output_tokens |-> outEst,
        cache_creation_input_tokens |-> 0, cache_read_input_tokens |-> 0]
  ELSE mapped

\* out of toAnthropicResponse, without out.model and the X-OR-* headers
toAnthropicResponse(orjson, estimateUsage, inputTokensEstimate, seed) ==
  LET content    == IF orjson.message = <<>> THEN NullContent
                    ELSE orjson.message[1].content
      tool_calls == IF orjson.message = <<>> THEN <<>>
                    ELSE orjson.message[1].tool_calls
      text       == textOf(content)
      toolBlocks == toolUseBlocks(tool_calls, seed)
      mapped     == mapUsageFromOpenRouter(
                      IF orjson.usage = <<>> THEN EmptyUsage ELSE orjson.usage[1])
  IN  [id |-> IF orjson.id # <<>> THEN orjson.id[1] ELSE "or_" \o seed,
       type |-> "message",
       role |-> "assistant",
       content |-> contentOf(blocksOf(text, toolBlocks)),
       stop_reason |-> stopReason(Len(toolBlocks) > 0),
       usage |-> usageOf(mapped, shouldEstimateUsage(estimateUsage),
                         inputTokensEstimate, estimateOutputTokensFromText(text))]

\* the values of ESTIMATE_USAGE and of the prompt estimate
EstimateSettings == { "", "1", "0" }
PromptEstimates == { 0, 7 }

\* what crypto.randomUUID and Math.random may return
Seeds == { "u1", "u2" }

InitResponse ==
  /\ body = <<>>
  /\ hasSystem = FALSE
  /\ idx = 1
  /\ messagesOut = <<>>
  /\ beforeNorm = <<>>
  /\ orphans = {}
  /\ mixedTurns = {}
  /\ pc = "idle"
  /\ records = <<>>
  /\ upstream = <<>>
  /\ pos = 0
  /\ readIssued = FALSE
  /\ buf = <<>>
  /\ lastUsage = <<>>
  /\ events = <<>>
  /\ spc = "idle"
  /\ cancelled = FALSE
  /\ taken = 0
  /\ failed = ""
  /\ lateReads = 0
  /\ released = FALSE
  /\ req = <<>>
  /\ env = <<>>
  /\ dpc = "idle"
  /\ orKey = <<>>
  /\ calls = <<>>
  /\ resps = <<>>
  /\ result = <<>>
  /\ menv = <<>>
  /\ disk = <<>>
  /\ served = <<>>
  /\ pin = <<>>
  /\ pout = <<>>
  /\ called = <<>>
  /\ reported = <<>>
  /\ ppc = "idle"
  /\ rin \in { i \in [orjson : UpstreamJson, estimateUsage : EstimateSettings,
                        inputTokensEstimate : PromptEstimates] :
                 ~shouldEstimateUsage(i.estimateUsage) => i.inputTokensEstimate = 0 }
  /\ rout = <<>>

\* the call toAnthropicResponse(data, ...) of the non-stream branch
Translate ==
  /\ rout = <<>>
  /\ \E seed \in Seeds :
        rout' = <<toAnthropicResponse(rin.orjson, rin.estimateUsage,
                                      rin.inputTokensEstimate, seed)>>
  /\ UNCHANGED rin
  /\ UNCHANGED <<payloadVars, streamVars, ioVars, dispatchVars, modelVars, outVars>>

NextResponse == Translate

SpecResponse == InitResponse /\ [][NextResponse]_vars

(* ============================ model selection ========================= *)

\* A table is a function from model ids (strings) to model names (token
\* sequences); <<>> is the table {}.

\* b.model || "anthropic/claude-3.7-sonnet"
DefaultModel == "anthropic/claude-3.7-sonnet"

\* b.model: missing, an alias, a legacy id, an id no table knows, and an id
\* that names a property every object inherits
RequestedModels ==
  { <<>>, <<"claude-sonnet-4">>, <<"claude-3-opus-20240229">>,
    <<"some-unmapped-id">>, <<"constructor">> }

\* the x-or-model header: absent or a model name
OverrideHeaders == { <<>>, <<"header/model">> }

ModelRequests == [model : RequestedModels, xOrModel : OverrideHeaders]

MODEL_MAP_BASE ==
  [ id \in {"claude-3-5-haiku-20241022", "claude-3-7-sonnet-latest",
            "claude-3-7-sonnet-20250219", "claude-3-opus-20240229"} |-> <<"$modeldemande">> ]

\* env.MODEL_MAP_EXT: unset or not JSON, or the JSON text of a table
ExtSettings ==
  { [isJson |-> FALSE, table |-> <<>>],
    [isJson |-> TRUE, table |-> ("claude-sonnet-4" :> <<"ext/sonnet">>)] }

ModelEnvs ==
  [FORCE_MODEL : { <<>>, <<SP>>, <<"forced/model">> },
   PRIMARY_MODEL : { <<>>, <<SP>>, <<"primary/model", SP>> },
   MODEL_MAP_EXT : ExtSettings]

\* ./model-map.json: missing, or one of two generations of the file
DiskStates ==
  { [exists |-> FALSE, table |-> <<>>],
    [exists |-> TRUE, table |-> ("claude-sonnet-4" :> <<"anthropic/claude-sonnet-4">>)],
    [exists |-> TRUE, table |-> ("claude-sonnet-4" :> <<"anthropic/claude-sonnet-4.5">>)] }

\* parseJSON(raw, {})
parseJSON(raw) == IF raw.isJson THEN raw.table ELSE <<>>

\* if (await modelMapFile.exists()) MODEL_MAP_AUTO = await modelMapFile.json()
loadModelMap(file) == IF file.exists THEN file.table ELSE <<>>

\* what every object inherits from Object.prototype
InheritedKeys == {"constructor"}

\* the value of the inherited property, which is not a string
InheritedValue == <<"function Object()">>

\* table[id]: nothing (undefined), or the value of the own or inherited property
lookup(table, id) ==
  IF id \in DOMAIN table THEN <<table[id]>>
  ELSE IF id \in InheritedKeys THEN <<InheritedValue>>
  ELSE <<>>

mapModel(id, FORCE_MODEL, ext, auto) ==
  IF FORCE_MODEL # <<>> THEN FORCE_MODEL
  ELSE IF lookup(ext, id) # <<>> THEN lookup(ext, id)[1]
  ELSE IF lookup(auto, id) # <<>> THEN lookup(auto, id)[1]
  ELSE IF lookup(MODEL_MAP_BASE, id) = <<<<"$modeldemande">>>> THEN <<id>>
  ELSE IF lookup(MODEL_MAP_BASE, id) # <<>> THEN lookup(MODEL_MAP_BASE, id)[1]
  ELSE <<id>>

\* out.model after the x-or-model header and PRIMARY_MODEL
\* (mutation: the header has the last word)
applyOverrides_headerLast(mapped, overrideModel, PRIMARY_MODEL) ==
  IF overrideModel # <<>> THEN Trim(overrideModel)
  ELSE IF PRIMARY_MODEL # <<>> THEN PRIMARY_MODEL
  ELSE mapped

applyOverrides(mapped, overrideModel, PRIMARY_MODEL) ==
  IF PRIMARY_MODEL # <<>> THEN PRIMARY_MODEL
  ELSE IF overrideModel # <<>> THEN Trim(overrideModel)
  ELSE mapped

reqModelOf(r) == IF r.model = <<>> THEN DefaultModel ELSE r.model[1]

\* what one request resolves to: the table it loaded, mapModel(reqModel) and
\* out.model of toOpenRouterPayload
serve(r, e, file) ==
  LET auto   == loadModelMap(file)
      mapped == mapModel(reqModelOf(r), Trim(e.FORCE_MODEL), parseJSON(e.MODEL_MAP_EXT), auto)
  IN  [req |-> r, auto |-> auto, mapped |-> mapped,
       model |-> applyOverrides(mapped, r.xOrModel, Trim(e.PRIMARY_MODEL))]

InitModel ==
  /\ body = <<>>
  /\ hasSystem = FALSE
  /\ idx = 1
  /\ messagesOut = <<>>
  /\ beforeNorm = <<>>
  /\ orphans = {}
  /\ mixedTurns = {}
  /\ pc = "idle"
  /\ records = <<>>
  /\ upstream = <<>>
  /\ pos = 0
  /\ readIssued = FALSE
  /\ buf = <<>>
  /\ lastUsage = <<>>
  /\ events = <<>>
  /\ spc = "idle"
  /\ cancelled = FALSE
  /\ taken = 0
  /\ failed = ""
  /\ lateReads = 0
  /\ released = FALSE
  /\ req = <<>>
  /\ env = <<>>
  /\ dpc = "idle"
  /\ orKey = <<>>
  /\ calls = <<>>
  /\ resps = <<>>
  /\ result = <<>>
  /\ menv \in ModelEnvs
  /\ disk \in DiskStates
  /\ served = <<>>
  /\ pin = <<>>
  /\ pout = <<>>
  /\ called = <<>>
  /\ reported = <<>>
  /\ ppc = "idle"
  /\ rin = <<>>
  /\ rout = <<>>

\* a request runs through model mapping and toOpenRouterPayload
Serve ==
  /\ \E r \in ModelRequests : served' = <<serve(r, menv, disk)>>
  /\ UNCHANGED <<menv, disk>>
  /\ UNCHANGED <<payloadVars, streamVars, ioVars, dispatchVars, responseVars, outVars>>

\* model-map.json is written, replaced or removed while the server runs
ChangeFile ==
  /\ \E d \in DiskStates \ {disk} : disk' = d
  /\ UNCHANGED <<menv, served>>
  /\ UNCHANGED <<payloadVars, streamVars, ioVars, dispatchVars, responseVars, outVars>>

NextModel ==
  \/ Serve
  \/ ChangeFile

SpecModel == InitModel /\ [][NextModel]_vars

(* ============= toOpenRouterPayload: model, reasoning, passthrough ===== *)

\* String.prototype.includes
includes(s, sub) ==
  \E i \in 1..(Len(s) - Len(sub) + 1) : SubSeq(s, i, i + Len(sub) - 1) = sub

\* The request body is a function from the keys present to their values;
\* a value is a token sequence, JSON null being the value Null.
Null == <<"null">>

\* the bodies with or without key k, its value drawn from options
field(k, options) == { <<>> } \cup { (k :> v) : v \in options }

PayloadBodies ==
  { ("messages" :> <<"anthropicMessages">>) @@ m @@ t @@ r @@ u @@ ms @@ md @@ tl :
      m  \in field("model", { <<"claude-sonnet-4">>, <<"anthropic/claude-3.7-sonnet:thinking">> }),
      t  \in field("temperature", { Null, <<"0.7">> }),
      r  \in field("reasoning", { Null, <<"effort", "low">> }),
      u  \in field("usage", { <<"include", "false">> }),
      ms \in field("models", { <<"other/model">> }),
      md \in field("metadata", { <<"user_id">> }),
      tl \in field("tools", { <<"toolA">> }) }

PayloadEnvs ==
  [FORCE_MODEL : { <<>>, <<"forced/model">> },
   PRIMARY_MODEL : { <<>>, <<"primary/model:thinking", SP>> },
   FALLBACK_MODEL : { <<>>, <<"fallback/model">> },
   MODEL_MAP_EXT : ExtSettings,
   REASONING_EFFORT : { <<>>, <<"high">> }]

PayloadInputs ==
  [b : PayloadBodies, xOrModel : { <<>>, <<"header/model:thinking">> }, e : PayloadEnvs]

\* b[k] ?? d
orDefault(b, k, d) == IF k \in DOMAIN b /\ b[k] # Null THEN b[k] ELSE d

\* b.model || "anthropic/claude-3.7-sonnet"
reqModelOfBody(b) ==
  IF "model" \in DOMAIN b /\ b["model"] # Null THEN b["model"][1] ELSE DefaultModel

\* mapToolsAnthropicToOpenAI(b.tools || []): one function tool per tool
toolsOA(b) ==
  IF "tools" \in DOMAIN b /\ b["tools"] # Null
  THEN [i \in DOMAIN b["tools"] |-> "function:" \o b["tools"][i]]
  ELSE <<>>

\* (mutation: metadata let through as well)
passthroughKeys_metadata ==
  << "plugins", "transforms", "web_search_options", "models", "provider",
     "reasoning", "usage", "top_p", "top_k", "frequency_penalty",
     "presence_penalty", "repetition_penalty", "seed", "logit_bias",
     "response_format", "user", "metadata" >>

passthroughKeys ==
  << "plugins", "transforms", "web_search_options", "models", "provider",
     "reasoning", "usage", "top_p", "top_k", "frequency_penalty",
     "presence_penalty", "repetition_penalty", "seed", "logit_bias",
     "response_format", "user" >>

\* for (const k of passthroughKeys) if (b[k] !== undefined) out[k] = b[k]
RECURSIVE passthrough(_, _, _)
passthrough(out, b, keys) ==
  IF keys = <<>> THEN out
  ELSE LET k == Head(keys)
       IN  passthrough(IF k \in DOMAIN b THEN (k :> b[k]) @@ out ELSE out, b, Tail(keys))

\* env.REASONING_EFFORT || "medium"
reasoningEffort(e) == IF e.REASONING_EFFORT # <<>> THEN e.REASONING_EFFORT ELSE <<"medium">>

\* MODEL_MAP_AUTO of a handler that finds no model-map.json
MODEL_MAP_AUTO == loadModelMap([exists |-> FALSE, table |-> <<>>])

\* the part of toOpenRouterPayload that follows the message loop
toOpenRouterPayload(b, xOrModel, e) ==
  LET reqModel == reqModelOfBody(b)
      mappedModel == mapModel(reqModel, Trim(e.FORCE_MODEL), parseJSON(e.MODEL_MAP_EXT), MODEL_MAP_AUTO)
      out0 == ("model" :> mappedModel) @@ ("messages" :> <<"messagesOut">>)
                @@ ("temperature" :> orDefault(b, "temperature", <<"0.2">>))
                @@ ("max_tokens" :> orDefault(b, "max_tokens", <<"1024">>))
                @@ ("usage" :> <<"include", "true">>)
      out1 == IF toolsOA(b) # <<>> THEN ("tools" :> toolsOA(b)) @@ out0 ELSE out0
      out2 == IF includes(reqModel, ":thinking")
              THEN ("reasoning" :> (<<"effort">> \o reasoningEffort(e))) @@ out1
              ELSE out1
      out3 == [out2 EXCEPT !["model"] = applyOverrides(mappedModel, xOrModel, Trim(e.PRIMARY_MODEL))]
  IN  passthrough(out3, b, passthroughKeys)

\* what the upstream call of the non-stream branch comes to: a status, and
\* whether the response JSON has a model field
PayloadOutcomes == [status : {200, 429, 400}, reportsModel : BOOLEAN]

\* orjson.model || payload.model || "openrouter"
modelUsedRaw(orModel, payload) ==
  IF orModel # <<>> THEN orModel
  ELSE IF payload["model"] # <<>> THEN payload["model"]
  ELSE <<"openrouter">>

\* stableModel = mapModel(modelUsedRaw)
stableModel(orModel, payload, e) ==
  mapModel(modelUsedRaw(orModel, payload)[1], Trim(e.FORCE_MODEL),
           parseJSON(e.MODEL_MAP_EXT), MODEL_MAP_AUTO)

InitPayload ==
  /\ body = <<>>
  /\ hasSystem = FALSE
  /\ idx = 1
  /\ messagesOut = <<>>
  /\ beforeNorm = <<>>
  /\ orphans = {}
  /\ mixedTurns = {}
  /\ pc = "idle"
  /\ records = <<>>
  /\ upstream = <<>>
  /\ pos = 0
  /\ readIssued = FALSE
  /\ buf = <<>>
  /\ lastUsage = <<>>
  /\ events = <<>>
  /\ spc = "idle"
  /\ cancelled = FALSE
  /\ taken = 0
  /\ failed = ""
  /\ lateReads = 0
  /\ released = FALSE
  /\ req = <<>>
  /\ env = <<>>
  /\ dpc = "idle"
  /\ orKey = <<>>
  /\ calls = <<>>
  /\ resps = <<>>
  /\ result = <<>>
  /\ menv = <<>>
  /\ disk = <<>>
  /\ served = <<>>
  /\ pin \in PayloadInputs
  /\ pout = <<>>
  /\ called = <<>>
  /\ reported = <<>>
  /\ ppc = "build"
  /\ rin = <<>>
  /\ rout = <<>>

\* const payload = toOpenRouterPayload(body, request, env, mapModel)
BuildPayload ==
  /\ ppc = "build"
  /\ pout' = <<toOpenRouterPayload(pin.b, pin.xOrModel, pin.e)>>
  /\ ppc' = "primary"
  /\ UNCHANGED <<pin, called, reported>>
  /\ UNCHANGED <<payloadVars, streamVars, ioVars, dispatchVars, modelVars, responseVars>>

\* the first call, with the payload
PrimaryAnswers ==
  /\ ppc = "primary"
  /\ called' = Append(called, pout[1]["model"])
  /\ \E o \in PayloadOutcomes :
        IF isOk(o.status)
        THEN /\ reported' = <<stableModel(IF o.reportsModel THEN pout[1]["model"] ELSE <<>>,
                                           pout[1], pin.e)>>
             /\ ppc' = "done"
        ELSE /\ reported' = <<>>
             /\ ppc' = IF shouldRetry(o.status, Trim(pin.e.FALLBACK_MODEL))
                       THEN "fallback" ELSE "done"
  /\ UNCHANGED <<pin, pout>>
  /\ UNCHANGED <<payloadVars, streamVars, ioVars, dispatchVars, modelVars, responseVars>>

\* the second call, with p2 = {...payload, model: FALLBACK_MODEL}
FallbackAnswers ==
  /\ ppc = "fallback"
  /\ called' = Append(called, Trim(pin.e.FALLBACK_MODEL))
  /\ \E o \in PayloadOutcomes :
        /\ reported' = IF isOk(o.status)
                       THEN <<stableModel(IF o.reportsModel THEN Trim(pin.e.FALLBACK_MODEL)
                                          ELSE <<>>,
                                          pout[1], pin.e)>>
                       ELSE <<>>
        /\ ppc' = "done"
  /\ UNCHANGED <<pin, pout>>
  /\ UNCHANGED <<payloadVars, streamVars, ioVars, dispatchVars, modelVars, responseVars>>

NextPayload ==
  \/ BuildPayload
  \/ PrimaryAnswers
  \/ FallbackAnswers

SpecPayload == InitPayload /\ [][NextPayload]_vars

(* ------------- the message loop and the pass as one function ---------- *)

\* one iteration of the for-of loop over b.messages
loopStep(out, m, src) ==
  IF ~m.content.isArray THEN out
  ELSE IF m.role = "assistant" THEN AssistantBranch(out, m, src)
  ELSE IF m.role = "user" THEN UserBranch(out, m, src)
  ELSE out

RECURSIVE loopFrom(_, _, _)
loopFrom(out, b, i) ==
  IF i > Len(b) THEN out ELSE loopFrom(loopStep(out, b[i], i), b, i + 1)

\* payload.messages of toOpenRouterPayload for the messages b
toOpenRouterMessages(b, sys) ==
  PostNormalization(
    loopFrom(IF sys THEN <<OutMsg("system", <<"sys">>, <<>>, "", "", 0)>> ELSE <<>>,
             b, 1))

(* ============================== claims ================================ *)

Done == pc = "done"

\* position of the nearest message with role "assistant" before position k
\* (0 when there is none)
RECURSIVE nearestAssistant(_, _)
nearestAssistant(out, k) ==
  IF k <= 1 THEN 0
  ELSE IF out[k - 1].role = "assistant" THEN k - 1
  ELSE nearestAssistant(out, k - 1)

\* C1: in the returned messages every message with role "tool" has a
\* tool_call_id equal to the id of one of the tool_calls of the nearest
\* preceding message with role "assistant".
C1_ToolIdMatchesNearestAssistant ==
  Done =>
    \A k \in 1..Len(messagesOut) :
      messagesOut[k].role = "tool" =>
        LET j == nearestAssistant(messagesOut, k)
        IN  /\ j > 0
            /\ InSeq(messagesOut[k].tool_call_id, idsOf(messagesOut[j].tool_calls))

\* C1 witness: a returned list with a tool message, from a body that also
\* submitted a tool_result matching no call of its anchor.
C1_Witness ==
  /\ Done
  /\ \E k \in 1..Len(messagesOut) : messagesOut[k].role = "tool"
  /\ orphans # {}

\* first position of id in the list ids (0 when absent)
firstIndex(ids, id) ==
  IF InSeq(id, ids) THEN CHOOSE i \in 1..Len(ids) :
                           ids[i] = id /\ \A j \in 1..(i - 1) : ids[j] # id
  ELSE 0

\* the positions p..q all hold tool messages
allTools(out, p, q) == \A i \in p..q : out[i].role = "tool"

\* C2: for every assistant message with tool_calls in the payload, the tool
\* messages that answer it appear in the same relative order as their ids in
\* that assistant's tool_calls, whether the results arrived in one user turn
\* or in several consecutive user turns.
C2_ToolOrderFollowsToolCalls ==
  Done =>
    \A k \in 1..Len(messagesOut) :
      hasToolCalls(messagesOut[k]) =>
        \A p, q \in (k + 1)..Len(messagesOut) :
          (p < q /\ allTools(messagesOut, k + 1, q)) =>
            firstIndex(idsOf(messagesOut[k].tool_calls), messagesOut[p].tool_call_id)
              <= firstIndex(idsOf(messagesOut[k].tool_calls), messagesOut[q].tool_call_id)

\* C3: a tool_result matching no tool call of an anchor (or submitted with
\* no anchor at all) is never dropped and never emitted as a tool message:
\* the final payload has a user message whose text includes its label
\* id=<id> content=<content>.
C3_OrphanResultFolded ==
  Done =>
    \A o \in orphans :
      /\ \E k \in 1..Len(messagesOut) :
            /\ messagesOut[k].role = "user"
            /\ Includes(messagesOut[k].content, Label(o.id, o.content))
      /\ ~\E k \in 1..Len(messagesOut) :
            /\ messagesOut[k].role = "tool"
            /\ messagesOut[k].src = o.src
            /\ messagesOut[k].tool_call_id = o.id

\* C4: a user turn holding a tool_result matched to the anchor and text that
\* is non-empty after trimming yields a user message carrying that trimmed
\* text, positioned after the tool messages emitted for that turn.
C4_TextKeptAfterMatchedTools ==
  Done =>
    \A t \in mixedTurns :
      \E k \in 1..Len(messagesOut) :
        /\ messagesOut[k].role = "user"
        /\ messagesOut[k].src = t.src
        /\ StartsWith(messagesOut[k].content, t.text)
        /\ \A p \in 1..Len(messagesOut) :
              (messagesOut[p].role = "tool" /\ messagesOut[p].src = t.src) => p < k

\* the body b with every bare string content rewritten as one text block
asBlocks(b) ==
  [i \in 1..Len(b) |->
     IF b[i].content.isArray THEN b[i]
     ELSE [role |-> b[i].role, content |-> ArrContent(<<TextBlock(b[i].content.str)>>)]]

\* C5: a message whose content is a bare string is translated exactly as if
\* it were a single text block.
C5_StringContentAsTextBlock ==
  Done => messagesOut = toOpenRouterMessages(asBlocks(body), hasSystem)

\* C6 (as claimed): for input positions i < j, every upstream message
\* derived from message i precedes every upstream message derived from j.
C6_NoReorderAcrossTurns ==
  Done =>
    \A p, q \in 1..Len(messagesOut) :
      p < q => messagesOut[p].src <= messagesOut[q].src

\* C6 (amended): the messages other than tool messages keep the conversation
\* order, at most one per input message; a tool message is the only thing
\* that moves, and it sits after an assistant message carrying tool_calls
\* that was derived from an earlier input message.
C6_OnlyToolMessagesMove ==
  Done =>
    /\ \A p, q \in 1..Len(messagesOut) :
          (p < q /\ messagesOut[p].role # "tool" /\ messagesOut[q].role # "tool")
            => messagesOut[p].src < messagesOut[q].src
    /\ \A k \in 1..Len(messagesOut) :
          messagesOut[k].role = "tool" =>
            \E j \in 1..(k - 1) :
              /\ hasToolCalls(messagesOut[j])
              /\ messagesOut[j].src < messagesOut[k].src

\* C6 witness: a tool message derived from a later turn stands before a
\* message derived from an earlier turn.
C6_Witness ==
  /\ Done
  /\ \E p, q \in 1..Len(messagesOut) :
        /\ p < q
        /\ messagesOut[p].role = "tool"
        /\ messagesOut[q].role = "assistant"
        /\ messagesOut[p].src > messagesOut[q].src

\* C7: after the post-normalization no assistant message carrying tool_calls
\* is immediately followed by a user message.
C7_NoUserRightAfterToolCalls ==
  Done =>
    \A k \in 1..(Len(messagesOut) - 1) :
      hasToolCalls(messagesOut[k]) => messagesOut[k + 1].role # "user"

\* C7 witness: the pass received an assistant message with tool_calls directly
\* followed by a user message, and removed it.
C7_Witness ==
  /\ Done
  /\ \E k \in 1..(Len(beforeNorm) - 1) :
        hasToolCalls(beforeNorm[k]) /\ beforeNorm[k + 1].role = "user"
  /\ Len(messagesOut) < Len(beforeNorm)
(* --------------------------- stream claims ---------------------------- *)

Closed == spc = "closed"

\* the content_block_delta events the records rs call for
RECURSIVE expectedDeltas(_)
expectedDeltas(rs) ==
  IF rs = <<>> THEN <<>>
  ELSE LET r == Head(rs)
       IN  (IF r.obj # <<>> /\ r.obj[1].hasContent /\ r.obj[1].content # ""
            THEN <<Event("content_block_delta", r.obj[1].content, <<>>)>>
            ELSE <<>>) \o expectedDeltas(Tail(rs))

\* the usage object of the last record of rs that carries one
RECURSIVE lastUsageOf(_)
lastUsageOf(rs) ==
  IF rs = <<>> THEN <<>>
  ELSE LET r == rs[Len(rs)]
       IN  IF r.obj # <<>> /\ r.obj[1].usage # <<>> THEN r.obj[1].usage
           ELSE lastUsageOf(SubSeq(rs, 1, Len(rs) - 1))

\* C8: for a stream that ends normally the output is exactly message_start,
\* then one content_block_delta per record whose delta content is a
\* non-empty string, in upstream order and with that string, then one
\* message_delta iff some record carried a usage object, then message_stop.
C8_ExactEventSequence ==
  Closed =>
    events =
      <<Event("message_start", "", <<>>)>>
      \o expectedDeltas(records)
      \o (IF lastUsageOf(records) # <<>>
          THEN <<Event("message_delta", "",
                       <<mapUsageFromOpenRouter(lastUsageOf(records)[1])>>)>>
          ELSE <<>>)
      \o <<Event("message_stop", "", <<>>)>>

\* C8 witness: a closed stream whose records held two text deltas, a record
\* with empty content, and a usage.
C8_Witness ==
  /\ Closed
  /\ Len(expectedDeltas(records)) >= 2
  /\ lastUsageOf(records) # <<>>
  /\ \E i \in 1..Len(records) :
        records[i].obj # <<>> /\ records[i].obj[1].hasContent /\ records[i].obj[1].content = ""

countOf(evs, name) == Cardinality({ i \in 1..Len(evs) : evs[i].name = name })

\* C9: message_start is enqueued before the first read of the upstream body
\* is issued, and exactly once per stream.
C9_StartBeforeFirstRead ==
  /\ readIssued => (events # <<>> /\ events[1].name = "message_start")
  /\ countOf(events, "message_start") = (IF spc = "new" THEN 0 ELSE 1)

\* C9 witness: a read has been issued and events followed message_start.
C9_Witness ==
  /\ readIssued
  /\ Len(events) >= 2
  /\ spc = "reading"

\* C10: the output does not depend on how the upstream text is cut into
\* chunks: whatever the reads so far returned, the buffer, the events and the
\* usage are those of a single read returning the whole text consumed.
C10_ChunkingIndependent ==
  spc \in {"reading", "closed"} =>
    LET one == readStep([buf |-> <<>>, events |-> startEvents, lastUsage |-> <<>>],
                        SubSeq(upstream, 1, pos))
    IN  IF spc = "reading"
        THEN buf = one.buf /\ events = one.events /\ lastUsage = one.lastUsage
        ELSE events = finishEvents(one.events, one.lastUsage)

\* C10 witness: the last read ended between the two newlines of a record
\* delimiter, leaving a whole record and one newline in the buffer, after an
\* earlier record had been emitted.
C10_Witness ==
  /\ spc = "reading"
  /\ Len(buf) >= 2
  /\ buf[Len(buf)] = NL
  /\ buf[Len(buf) - 1] # NL
  /\ pos < Len(upstream)
  /\ upstream[pos + 1] = NL
  /\ countOf(events, "content_block_delta") >= 1

\* a record whose line is neither empty, nor [DONE], nor parsable JSON
failsToParse(r) ==
  LET line == Trim(r.text)
  IN  line # <<>> /\ stripData(line) # <<"[DONE]">> /\ ~canParse(stripData(line))

parsableOnly(rs) == SelectSeq(rs, LAMBDA r : ~failsToParse(r))

\* what follows the last delimiter of upstream
tailOf(rs, text) == SubSeq(text, Len(render(rs)) + 1, Len(text))

\* C11: a record that fails to parse as JSON is skipped and never aborts the
\* stream: the closed output is the output for the same upstream with the
\* unparsable records removed (every other record is still translated), and
\* it ends with message_stop.
C11_BadRecordSkipped ==
  Closed =>
    LET good == readStep([buf |-> <<>>, events |-> startEvents, lastUsage |-> <<>>],
                         render(parsableOnly(records)) \o tailOf(records, upstream))
    IN  /\ events = finishEvents(good.events, good.lastUsage)
        /\ events[Len(events)].name = "message_stop"

\* C11 witness: a closed stream in which an unparsable record came before a
\* record carrying a text delta, and that delta was emitted.
C11_Witness ==
  /\ Closed
  /\ \E i, j \in 1..Len(records) :
        /\ i < j
        /\ failsToParse(records[i])
        /\ expectedDeltas(<<records[j]>>) # <<>>
  /\ countOf(events, "content_block_delta") >= 1

(* ----------------- stream claims: failures and the consumer ----------- *)

\* C12: if reading upstream or emitting an event throws during consumption,
\* the output ends in the errored state; the output is never closed normally
\* without a message_stop, and no message_stop is emitted after the failure.
C12_FailureErrorsOutput ==
  /\ failed # "" => (spc = "errored" /\ countOf(events, "message_stop") = 0)
  /\ spc = "closed" => events[Len(events)].name = "message_stop"

\* C12 (amended): a failed read of a readable output leaves it errored;
\* emitting throws only on an output its consumer cancelled, and the output
\* then stays cancelled.  In both cases the output is not closed normally
\* and carries no message_stop.
C12_FailureNeverClosesNormally ==
  /\ (failed # "" /\ ~cancelled) => spc = "errored"
  /\ (failed # "" /\ cancelled) => spc = "stopped"
  /\ failed = "emit" => cancelled
  /\ failed # "" => countOf(events, "message_stop") = 0
  /\ spc = "closed" => (failed = "" /\ events[Len(events)].name = "message_stop")

\* C12 witness: a read failed in mid-stream, after a text delta had been
\* emitted, and the output is errored.
C12_Witness ==
  /\ failed = "read"
  /\ spc = "errored"
  /\ ~cancelled
  /\ pos < Len(upstream)
  /\ countOf(events, "content_block_delta") >= 1

\* C13: after the client cancelled the output the read loop stops (at most
\* the read in flight completes) and, once it has stopped, the upstream
\* reader is released, whatever the remaining records contain.
C13_CancelStopsReadLoop ==
  cancelled =>
    /\ lateReads <= 1
    /\ spc = "stopped" => released

\* events enqueued and not yet consumed
queued == Len(events) - taken

\* C14: an upstream read that returns data is issued only when the consumer
\* has drained the output queue.
C14_ReadsOnlyOnDemand ==
  [][pos' # pos => queued = 0]_vars

(* ------------------------- request handler claims --------------------- *)

Answered == dpc = "done"

isMessagesPost == req.method = "POST" /\ req.path = "/v1/messages"

\* C15: every upstream call of the dispatcher, in the stream branch as in
\* the non-stream branch, is wrapped by the timeout.
C15_EveryCallTimed ==
  \A i \in 1..Len(calls) : calls[i].timed

failedUpstream(o) == o.kind \in {"network", "timeout"}

\* C16: the handler always returns a response; when the upstream call timed
\* out, failed at the network level, or returned a body that is not JSON,
\* that response has status 502 or 504 and a JSON error envelope.
C16_UpstreamFailureAnswered ==
  Answered =>
    /\ result[1].kind = "response"
    /\ (resps # <<>> /\
        (failedUpstream(resps[Len(resps)]) \/ ~isJSON(resps[Len(resps)].body)))
         => (result[1].status \in {502, 504} /\ isJSON(result[1].body))

\* C17: a non-streaming request issues at most two upstream calls, one
\* after the other; the second only after the first returned 429 or 5xx and
\* only with a fallback model configured, differing from the first in the
\* model field only; a streaming request issues exactly one call.
C17_AtMostOneRetry ==
  /\ Len(calls) <= 2
  /\ Len(calls) <= Len(resps) + 1
  /\ (Len(calls) >= 1 /\ calls[1].payload.stream) => Len(calls) = 1
  /\ (Answered /\ resps # <<>>) => Len(calls) >= 1
  /\ Len(calls) = 2 =>
        /\ resps # <<>>
        /\ resps[1].kind = "response"
        /\ resps[1].status = 429 \/ (resps[1].status >= 500 /\ resps[1].status <= 599)
        /\ Trim(env.FALLBACK_MODEL) # <<>>
        /\ calls[2].payload.model = Trim(env.FALLBACK_MODEL)
        /\ [calls[2] EXCEPT !.payload.model = calls[1].payload.model] = calls[1]

\* C17 witness: the primary call returned 429, the fallback call was made
\* and succeeded, and the request is answered.
C17_Witness ==
  /\ Answered
  /\ Len(calls) = 2
  /\ Len(resps) = 2
  /\ resps[1].status = 429
  /\ resps[2].status = 200
  /\ calls[2].payload.model # calls[1].payload.model

\* C18: in the non-stream branch, when the final upstream response is
\* non-2xx the client receives exactly its status and body; when it is 2xx
\* the response is built from it alone.
C18_FinalResultPassedThrough ==
  (Answered /\ resps # <<>> /\ ~calls[1].payload.stream
     /\ resps[Len(resps)].kind = "response") =>
    LET final == resps[Len(resps)]
    IN  IF isOk(final.status)
        THEN /\ result[1].kind = "response"
             /\ result[1].status = 200
        ELSE /\ result[1].kind = "response"
             /\ result[1].status = final.status
             /\ result[1].body = final.body

\* C19: a client key with the upstream prefix is used directly; otherwise
\* the request is rejected with 401 without a server key and with 403 when
\* the secret is required and the proxy-token does not match; the server key
\* never goes upstream for a request that supplies no matching proxy-token
\* while the secret is required.
C19_CredentialsGuardUpstream ==
  /\ \A i \in 1..Len(calls) :
        /\ StartsWith(req.clientKey, <<"sk-or-">>) => calls[i].key = req.clientKey
        /\ (calls[i].key = env.OPENROUTER_API_KEY /\ requireProxyToken(env)) =>
             (req.proxyTokenHeader # <<>> /\ env.PROXY_TOKEN = req.proxyTokenHeader)
  /\ (Answered /\ isMessagesPost /\ ~StartsWith(req.clientKey, <<"sk-or-">>)) =>
        /\ env.OPENROUTER_API_KEY = <<>> => result[1].status = 401
        /\ (env.OPENROUTER_API_KEY # <<>> /\ requireProxyToken(env)
             /\ env.PROXY_TOKEN # req.proxyTokenHeader) => result[1].status = 403

\* C20: a POST /v1/messages whose body is not valid JSON is answered with
\* 400 invalid_json and no upstream call; no upstream call is made for a
\* request rejected with 401, 403 or 404.
C20_InvalidJsonAlways400 ==
  Answered =>
    /\ (isMessagesPost /\ ~req.bodyOk) =>
          (result[1] = withCORS(json(errorBody("invalid_json"), 400)) /\ calls = <<>>)
    /\ (result[1].kind = "response" /\ result[1].status \in {401, 403, 404}
         /\ resps = <<>>) => calls = <<>>

\* C20 (amended): the 400 is the answer once credential resolution has
\* accepted the request; a request it rejects gets 401 or 403 whatever its
\* body.  In all these cases no upstream call is made.
C20_InvalidJson400AfterAuth ==
  /\ (isMessagesPost /\ ~req.bodyOk) => calls = <<>>
  /\ (Answered /\ isMessagesPost /\ ~req.bodyOk) =>
        IF resolveKey(req, env).reject = <<>>
        THEN result[1] = withCORS(json(errorBody("invalid_json"), 400))
        ELSE result = resolveKey(req, env).reject /\ result[1].status \in {401, 403}
  /\ (Answered /\ resps = <<>>) => calls = <<>>

\* C20 witness: an authenticated POST /v1/messages with a body that is not
\* JSON has been answered with 400.
C20_Witness ==
  /\ Answered
  /\ isMessagesPost
  /\ ~req.bodyOk
  /\ orKey # <<>>
  /\ result[1].status = 400
  /\ calls = <<>>

\* C21: every response the handler returns carries
\* access-control-allow-origin "*" and the anthropic-version header.
C21_CorsAndVersionOnEveryResponse ==
  (result # <<>> /\ result[1].kind = "response") =>
    /\ <<"access-control-allow-origin", "*">> \in result[1].headers
    /\ <<"anthropic-version", "2023-06-01">> \in result[1].headers

\* C21 witness: the streaming success response, the one response that is
\* not built by withCORS, has been returned.
C21_Witness ==
  /\ Answered
  /\ calls # <<>>
  /\ calls[1].payload.stream
  /\ result[1].status = 200
  /\ <<"content-type", "text/event-stream; charset=utf-8">> \in result[1].headers

\* the error codes of the handler and of the upstream error bodies
ErrorCodes ==
  {"invalid_json", "not_found", "missing_server_key", "forbidden",
   "rate_limited", "overloaded", "bad_request", "upstream_error"}

\* C30: every failure response has a JSON body carrying a short
\* machine-readable error code.
C30_FailuresCarryErrorCode ==
  (result # <<>> /\ result[1].kind = "response" /\ result[1].status >= 400) =>
    /\ isJSON(result[1].body)
    /\ \E c \in ErrorCodes : result[1].body = errorBody(c)
    /\ <<"content-type", "application/json">> \in result[1].headers

(* ----------------------- toAnthropicResponse claims ------------------- *)

Translated == rout # <<>>

\* the text and the tool calls of the upstream message translated
upstreamText ==
  IF rin.orjson.message = <<>> THEN <<>> ELSE textOf(rin.orjson.message[1].content)

upstreamToolCalls ==
  IF rin.orjson.message = <<>> THEN <<>> ELSE rin.orjson.message[1].tool_calls

isToolUse(b) == b.type = "tool_use"

\* C22: the translated response has at least one content block: a text
\* block first, present only when the text is not blank, then one tool_use
\* block per upstream tool call in upstream order; with no block at all the
\* content is exactly one text block with empty text.
C22_AtLeastOneContentBlock ==
  Translated =>
    LET content == rout[1].content
        tools   == SelectSeq(content, isToolUse)
        nText   == Len(content) - Len(tools)
        blank   == Trim(upstreamText) = <<>>
    IN  /\ Len(content) >= 1
        /\ nText <= 1
        /\ nText = 1 => content[1].type = "text"
        /\ ~blank => (nText = 1 /\ content[1].text = upstreamText)
        /\ (blank /\ upstreamToolCalls # <<>>) => nText = 0
        /\ (blank /\ upstreamToolCalls = <<>>) =>
              content = <<Block("text", <<>>, "", "", "")>>
        /\ Len(tools) = Len(upstreamToolCalls)
        /\ \A i \in 1..Len(tools) :
              /\ upstreamToolCalls[i].id # <<>> => tools[i].id = upstreamToolCalls[i].id[1]
              /\ upstreamToolCalls[i].name # <<>> =>
                    tools[i].name = upstreamToolCalls[i].name[1]
              /\ tools[i].input = inputOf(upstreamToolCalls[i].args)

\* C22 witness: an upstream message whose content is only whitespace and
\* which has no tool call was translated to one empty text block.
C22_Witness ==
  /\ Translated
  /\ upstreamText # <<>>
  /\ Trim(upstreamText) = <<>>
  /\ upstreamToolCalls = <<>>
  /\ rout[1].content = <<Block("text", <<>>, "", "", "")>>

\* C23: stop_reason is "tool_use" if and only if the content contains a
\* tool_use block, and "end_turn" otherwise.
C23_StopReasonFollowsToolUse ==
  Translated =>
    IF \E i \in 1..Len(rout[1].content) : isToolUse(rout[1].content[i])
    THEN rout[1].stop_reason = "tool_use"
    ELSE rout[1].stop_reason = "end_turn"

\* C23 witness: a response with a text block and two tool_use blocks.
C23_Witness ==
  /\ Translated
  /\ Len(rout[1].content) = 3
  /\ rout[1].content[1].type = "text"
  /\ isToolUse(rout[1].content[2])
  /\ isToolUse(rout[1].content[3])
  /\ rout[1].stop_reason = "tool_use"

\* the upstream usage, field by field
mappedUsage ==
  mapUsageFromOpenRouter(
    IF rin.orjson.usage = <<>> THEN EmptyUsage ELSE rin.orjson.usage[1])

\* the estimate: prompt estimate, output estimate from the text, no cache
synthesizedUsage ==
  [input_tokens |-> rin.inputTokensEstimate,
   output_tokens |-> charLen(upstreamText) \div 4,
   cache_creation_input_tokens |-> 0,
   cache_read_input_tokens |-> 0]

\* C24: the usage is exactly the mapped upstream usage or exactly the
\* estimate; the estimate only when estimation is enabled and the mapped
\* input and output counts are both zero; a non-zero upstream prompt or
\* completion count is carried unchanged.
C24_UsageNeverMixed ==
  Translated =>
    LET u == rout[1].usage
        enabled == rin.estimateUsage \in {"", "1"}
    IN  /\ u = mappedUsage \/ u = synthesizedUsage
        /\ u # mappedUsage =>
              (enabled /\ mappedUsage.input_tokens = 0 /\ mappedUsage.output_tokens = 0)
        /\ (enabled /\ mappedUsage.input_tokens = 0 /\ mappedUsage.output_tokens = 0)
              => u = synthesizedUsage
        /\ \A usage \in { x \in {UsageA, UsageB, UsageHalf} : rin.orjson.usage = <<x>> } :
              /\ u.input_tokens = coalesce(usage.prompt_tokens, usage.input_tokens)
              /\ u.output_tokens = coalesce(usage.completion_tokens, usage.output_tokens)
              /\ u.cache_read_input_tokens = coalesce(usage.cached_tokens, <<>>)

\* C24 witness: upstream reported 37 prompt tokens and no completion
\* tokens for a text the estimate would count, with estimation enabled, and
\* the response carries the upstream numbers.
C24_Witness ==
  /\ Translated
  /\ rin.orjson.usage = <<UsageHalf>>
  /\ rin.estimateUsage = "1"
  /\ charLen(upstreamText) \div 4 > 0
  /\ rout[1].usage.input_tokens = 37
  /\ rout[1].usage.output_tokens = 0

(* -------------------------- model selection claims -------------------- *)

Served == served # <<>>

forceModel == Trim(menv.FORCE_MODEL)
primaryModel == Trim(menv.PRIMARY_MODEL)

\* the id has no entry in the extension, the auto-loaded and the legacy table
inNoTable(id, auto) ==
  /\ id \notin DOMAIN parseJSON(menv.MODEL_MAP_EXT)
  /\ id \notin DOMAIN auto
  /\ id \notin DOMAIN MODEL_MAP_BASE

\* C25: for a requested model id that no alias source knows (and with no
\* force, header or primary override in the way) the payload model is the
\* requested id unchanged.
C25_UnknownIdPassesThrough ==
  (Served /\ served[1].req.model # <<>>
     /\ inNoTable(served[1].req.model[1], served[1].auto)
     /\ forceModel = <<>> /\ primaryModel = <<>> /\ served[1].req.xOrModel = <<>>)
    => served[1].model = served[1].req.model

\* the first match over the four sources, by the entries of the tables
firstMatch(id, auto) ==
  LET ext == parseJSON(menv.MODEL_MAP_EXT)
  IN  IF forceModel # <<>> THEN forceModel
      ELSE IF id \in DOMAIN ext THEN ext[id]
      ELSE IF id \in DOMAIN auto THEN auto[id]
      ELSE IF id \in DOMAIN MODEL_MAP_BASE /\ MODEL_MAP_BASE[id] # <<"$modeldemande">>
           THEN MODEL_MAP_BASE[id]
      ELSE <<id>>

\* C26: mapModel is the first match over the force-override, the extension
\* entry, the auto-loaded entry and the legacy table (pass-through entries
\* give the id), else the id unchanged.
C26_FirstMatchWins ==
  Served => served[1].mapped = firstMatch(reqModelOf(served[1].req), served[1].auto)

\* C27: with a force-override model configured the payload model is the
\* force-override value, whatever the request and the other settings are.
C27_ForceIgnoresEverything ==
  (Served /\ forceModel # <<>>) => served[1].model = forceModel

C29_SameIdSameModel ==
  [][(served # <<>> /\ served' # <<>> /\ served'[1].req = served[1].req)
       => served'[1].model = served[1].model]_vars

(* ------------------------------ routing claims ------------------------ *)

Routed == dpc # "route"

answeredWith(status, bodyText) ==
  /\ dpc = "done"
  /\ result # <<>>
  /\ result[1].kind = "response"
  /\ result[1].status = status
  /\ result[1].body = bodyText

healthBody == <<"{", "\"ok\":true", "}">>

\* the request got past the routing tests into the handler of its endpoint
reachedMessages ==
  ~answeredWith(404, errorBody("not_found")) /\ ~answeredWith(204, <<>>)
    /\ ~answeredWith(200, healthBody)

reachedCountTokens ==
  \/ answeredWith(200, <<"{", "\"input_tokens\":n", "}">>)
  \/ answeredWith(400, errorBody("invalid_json"))

\* C31 as stated: OPTIONS to any path is answered 204 with no body, /health
\* is answered 200 {"ok":true}, the two POST endpoints reach their handlers
\* and every other method/path pair is answered 404 not_found.
C31_RoutingByMethodAndPath ==
  Routed =>
    /\ req.method = "OPTIONS" => answeredWith(204, <<>>)
    /\ (req.method # "OPTIONS" /\ req.path = "/health") => answeredWith(200, healthBody)
    /\ (req.method = "POST" /\ req.path = "/v1/messages/count_tokens") => reachedCountTokens
    /\ (req.method = "POST" /\ req.path = "/v1/messages") => reachedMessages
    /\ (req.method = "GET" /\ req.path # "/health") => answeredWith(404, errorBody("not_found"))
    /\ (req.method = "POST" /\ req.path = "/v1/complete") => answeredWith(404, errorBody("not_found"))

\* C31 amended: routing is total and the path /health is tested first:
\* /health is answered 200 {"ok":true} for every method, OPTIONS included;
\* an OPTIONS request to any other path is answered 204 with no body; the
\* two POST endpoints reach their handlers; every other pair is answered
\* 404 not_found.
C31_RoutingHealthFirst ==
  Routed =>
    IF req.path = "/health" THEN answeredWith(200, healthBody)
    ELSE IF req.method = "OPTIONS" THEN answeredWith(204, <<>>)
    ELSE IF req.method = "POST" /\ req.path = "/v1/messages/count_tokens" THEN reachedCountTokens
    ELSE IF req.method = "POST" /\ req.path = "/v1/messages" THEN reachedMessages
    ELSE answeredWith(404, errorBody("not_found"))

\* C31 witness: a preflight to /health has been answered 200 with a body.
C31_Witness ==
  /\ Routed
  /\ req.method = "OPTIONS"
  /\ req.path = "/health"
  /\ answeredWith(200, healthBody)

(* ------------------------- payload settings claims -------------------- *)

Built == pout # <<>>

\* C32: the payload carries reasoning.effort from configuration (default
\* "medium") whenever the requested model id or the model id finally sent
\* upstream contains ":thinking", and no proxy-generated reasoning otherwise
\* (requests that bring no reasoning of their own).
C32_ReasoningFollowsThinkingMarker ==
  (Built /\ "reasoning" \notin DOMAIN pin.b) =>
    LET out == pout[1]
        marked == \/ includes(reqModelOfBody(pin.b), ":thinking")
                  \/ includes(out["model"][1], ":thinking")
        effort == IF pin.e.REASONING_EFFORT = <<>> THEN <<"medium">>
                  ELSE pin.e.REASONING_EFFORT
    IN  IF marked
        THEN "reasoning" \in DOMAIN out /\ out["reasoning"] = <<"effort">> \o effort
        ELSE "reasoning" \notin DOMAIN out

\* C39: the model the translated response reports is the model of the
\* upstream call that produced the response.
C39_ReportedModelIsCalledModel ==
  reported # <<>> => reported[1] = called[Len(called)]

AllowList ==
  { "plugins", "transforms", "web_search_options", "models", "provider",
    "reasoning", "usage", "top_p", "top_k", "frequency_penalty",
    "presence_penalty", "repetition_penalty", "seed", "logit_bias",
    "response_format", "user" }

\* C40: every allow-listed field of the request is in the payload unchanged
\* (a caller-supplied reasoning in place of the configured one), no request
\* field outside the allow-list other than model, messages, tools,
\* temperature and max_tokens is in the payload, and model and messages are
\* what the model and message logic made them.
C40_OnlyAllowListPassesThrough ==
  Built =>
    LET out == pout[1]
        b == pin.b
    IN  /\ \A k \in AllowList \cap DOMAIN b : k \in DOMAIN out /\ out[k] = b[k]
        /\ \A k \in DOMAIN b \ (AllowList \cup {"model", "messages", "tools",
                                                  "temperature", "max_tokens"}) :
              k \notin DOMAIN out
        /\ out["messages"] = <<"messagesOut">>
        /\ out["model"] =
              applyOverrides(mapModel(reqModelOfBody(b), Trim(pin.e.FORCE_MODEL),
                                      parseJSON(pin.e.MODEL_MAP_EXT), MODEL_MAP_AUTO),
                             pin.xOrModel, Trim(pin.e.PRIMARY_MODEL))

\* C40 witness: a request for a ":thinking" model that brings its own
\* reasoning, a models list and a metadata field has been translated.
C40_Witness ==
  /\ Built
  /\ includes(reqModelOfBody(pin.b), ":thinking")
  /\ {"reasoning", "models", "metadata"} \subseteq DOMAIN pin.b
  /\ pin.b["reasoning"] = <<"effort", "low">>
  /\ pout[1]["reasoning"] = <<"effort", "low">>
  /\ "metadata" \notin DOMAIN pout[1]

(* ----------------------- further stream claims ------------------------ *)

\* the tool calls of the records upstream sent
toolCallsSent ==
  { records[i].obj[1].tool_calls[1] :
      i \in { j \in 1..Len(records) :
                records[j].obj # <<>> /\ records[j].obj[1].tool_calls # <<>> } }

\* C33: when the stream has ended, every tool call a record carried has been
\* conveyed to the client by an event of the output (its id, name or
\* arguments in a content block event).
C33_StreamedToolCallsConveyed ==
  Closed =>
    \A tc \in toolCallsSent :
      \E i \in 1..Len(events) :
        /\ events[i].name \in {"content_block_start", "content_block_delta"}
        /\ events[i].text \in {tc.id, tc.name, tc.arguments}

\* the positions of the events of one name
positionsOf(evs, name) == { i \in 1..Len(evs) : evs[i].name = name }

\* C34: the output of a stream that has ended holds one message_delta when
\* some record carried a usage and none otherwise; it carries the mapping
\* of the last such usage alone and comes after every content_block_delta.
C34_LastUsageOnly ==
  Closed =>
    LET usageAt == positionsOf(events, "message_delta")
        textAt  == positionsOf(events, "content_block_delta")
        last    == lastUsageOf(records)
    IN  IF last = <<>> THEN usageAt = {}
        ELSE /\ Cardinality(usageAt) = 1
             /\ \A u \in usageAt :
                   /\ events[u].usage = <<mapUsageFromOpenRouter(last[1])>>
                   /\ \A t \in textAt : t < u

\* C34 witness: a stream with two different usage objects, the second in
\* the last record, and a text delta after the first, has ended.
C34_Witness ==
  /\ Closed
  /\ Len(records) = 3
  /\ records[1].obj = <<Obj(FALSE, "", <<UsageA>>)>>
  /\ records[2].obj = <<Obj(TRUE, "Hel", <<>>)>>
  /\ records[3].obj = <<Obj(TRUE, "lo", <<UsageB>>)>>
  /\ \E i \in 1..Len(events) :
        events[i].usage = <<mapUsageFromOpenRouter(UsageB)>>

\* the concatenation of the text of the text deltas
RECURSIVE textOfEvents(_)
textOfEvents(evs) ==
  IF evs = <<>> THEN ""
  ELSE (IF Head(evs).name = "content_block_delta" THEN Head(evs).text ELSE "")
         \o textOfEvents(Tail(evs))

\* the concatenation of delta.content of the records
RECURSIVE textOfRecords(_)
textOfRecords(rs) ==
  IF rs = <<>> THEN ""
  ELSE (IF Head(rs).obj # <<>> /\ Head(rs).obj[1].hasContent
        THEN Head(rs).obj[1].content ELSE "")
         \o textOfRecords(Tail(rs))

\* what upstream sent after the last delimiter
tailSent == SubSeq(upstream, Len(render(records)) + 1, Len(upstream))

\* delta.content of the final record when it parses
textOfTail ==
  LET jsonLine == stripData(Trim(tailSent))
  IN  IF canParse(jsonLine) /\ parse(jsonLine).hasContent THEN parse(jsonLine).content
      ELSE ""

\* C35: when the upstream stream has ended normally the text deltas emitted
\* add up to delta.content of every parseable record upstream sent, a final
\* record without a closing delimiter included.
C35_NoTextLost ==
  Closed => textOfEvents(events) = textOfRecords(records) \o textOfTail

(* ----------------------- further payload claims ----------------------- *)

\* position of the nearest message carrying tool_calls before position k
\* (0 when there is none)
RECURSIVE callerOf(_, _)
callerOf(out, k) ==
  IF k <= 1 THEN 0
  ELSE IF hasToolCalls(out[k - 1]) THEN k - 1
  ELSE callerOf(out, k - 1)

\* C36: in the produced payload each tool-call id of an assistant message
\* is answered by at most one tool message.
C36_AtMostOneAnswerPerCall ==
  Done =>
    \A p, q \in 1..Len(messagesOut) :
      (/\ p < q
       /\ messagesOut[p].role = "tool"
       /\ messagesOut[q].role = "tool"
       /\ callerOf(messagesOut, p) = callerOf(messagesOut, q))
        => messagesOut[p].tool_call_id # messagesOut[q].tool_call_id

\* the input messages that are user turns made of text blocks only, with
\* text that is non-empty after trimming
textOnlyTurns ==
  { i \in 1..Len(body) :
      /\ body[i].role = "user"
      /\ body[i].content.isArray
      /\ body[i].content.blocks # <<>>
      /\ \A n \in 1..Len(body[i].content.blocks) : body[i].content.blocks[n].type = "text"
      /\ Trim(userTextOf(body[i].content.blocks)) # <<>> }

\* C37: every text-only user turn with non-empty trimmed text has a user
\* message with that text in the final payload, whatever precedes it.
C37_TextOnlyUserTurnKept ==
  Done =>
    \A i \in textOnlyTurns :
      \E k \in 1..Len(messagesOut) :
        /\ messagesOut[k].role = "user"
        /\ messagesOut[k].src = i
        /\ messagesOut[k].content = Trim(userTextOf(body[i].content.blocks))

\* the messages a tool message passed on its way to its anchor: those behind
\* it that were derived from earlier input messages
passedBy(out, p) == { q \in (p + 1)..Len(out) : out[q].src < out[p].src }

\* C38 as stated: the scan for the anchor skips tool messages only, so a
\* tool message has passed nothing but tool messages.
C38_ScanSkipsOnlyToolMessages ==
  Done =>
    \A p \in 1..Len(messagesOut) :
      messagesOut[p].role = "tool" =>
        \A q \in passedBy(messagesOut, p) : messagesOut[q].role = "tool"

\* C38 amended: the scan for the anchor skips tool messages and assistant
\* messages without tool calls; a user or system message ends it with no
\* anchor, and the anchor is the nearest message with tool calls.
C38_ScanSkipsToolAndPlainAssistant ==
  Done =>
    \A p \in 1..Len(messagesOut) :
      messagesOut[p].role = "tool" =>
        \A q \in passedBy(messagesOut, p) :
          /\ messagesOut[q].role \in {"tool", "assistant"}
          /\ ~hasToolCalls(messagesOut[q])

\* C38 witness: a tool message has passed an assistant message without tool
\* calls and stands behind its anchor.
C38_Witness ==
  /\ Done
  /\ \E p \in 2..Len(messagesOut) :
        /\ messagesOut[p].role = "tool"
        /\ hasToolCalls(messagesOut[p - 1])
        /\ \E q \in passedBy(messagesOut, p) : messagesOut[q].role = "assistant"
====
